---------------------------- MODULE Spec2Model ----------------------------
(***************************************************************************)
(* A model of taskbook: the sync server's bucket replacement (PUT /items,  *)
(* PUT /items/archive), its per-user notification hub and event stream,    *)
(* the terminal client's live refresh, and the local file store.           *)
(*                                                                         *)
(* The database is PostgreSQL reached through sqlx; `pool.begin()` opens a *)
(* transaction at the server's default isolation level (READ COMMITTED):   *)
(* every statement sees the rows committed when the statement starts, a    *)
(* statement that meets a row another open transaction has deleted or      *)
(* inserted waits for that transaction to end, and a transaction that is   *)
(* dropped without commit is rolled back.                                  *)
(***************************************************************************)
EXTENDS Integers, Sequences, FiniteSets, TLC

\* ------------------------------------------------------------------ bounds

\* PUT handlers that run at the same time.
MaxInFlight == 2

\* PUT requests in one run of the database specification.
MaxDbPuts == 2

\* ------------------------------------------------------- program constants

MAX_ITEMS_PER_CATEGORY == 10000
MaxKeyLen == 64
MaxNonceChars == 24
MaxDataChars == 1400000

\* ------------------------------------------------------------- base values

Users == {"u1", "u2"}
NoUser == "nobody"

Keys == {"1", "2"}

\* The handler tasks of the PUT requests in flight.
PutIds == 1..MaxInFlight

\* A byte string, by its length and its content.
Bytes(n, c) == [len |-> n, tag |-> c]

\* A base64 text, by the bytes it was made from and its form: the canonical
\* padded encoding, or a text the STANDARD engine refuses ("illegal": a
\* character outside the alphabet; "unpadded": the padding left off).
Text(b, f) == [bytes |-> b, form |-> f]

\* chars of the text: 4 per 3 bytes, padded up for the canonical form.
TextLen(t) ==
    IF t.form = "unpadded"
    THEN (4 * t.bytes.len + 2) \div 3
    ELSE 4 * ((t.bytes.len + 2) \div 3)

DecodeError == [len |-> -1, tag |-> "error"]

\* base64::engine::general_purpose::STANDARD.decode
B64Decode(t) == IF t.form = "canonical" THEN t.bytes ELSE DecodeError

\* base64::engine::general_purpose::STANDARD.encode
B64Encode(b) == Text(b, "canonical")

EncryptedItemData(d, n) == [data |-> d, nonce |-> n]

Nonce12 == Bytes(12, "n")
WireA == EncryptedItemData(B64Encode(Bytes(40, "a")), B64Encode(Nonce12))
WireB == EncryptedItemData(B64Encode(Bytes(40, "b")), B64Encode(Nonce12))
\* data that is not base64
WireBadData == EncryptedItemData(Text(Bytes(40, "a"), "illegal"), B64Encode(Nonce12))
\* a nonce text of more than 24 chars
WireLongNonce == EncryptedItemData(B64Encode(Bytes(40, "a")), B64Encode(Bytes(19, "n")))

Empty == [k \in {} |-> WireA]


KeyLen(k) == IF k = "long" THEN 65 ELSE 1

\* ------------------------------------------------------------------- state

VARIABLES
    rows,       \* table items: the committed rows
    sessions,   \* table sessions: token -> the session's row
    users,      \* table users: the registered accounts
    auth_rate_limiter, \* RateLimiter.requests: address -> admission instants
    now,        \* the server's clock, in seconds
    reply,      \* the latest reply of a user route or of GET /events
    authHist,   \* history: the latest call of the rate limiter, the instants
                \* of the calls it admitted, and every token issued
    srv,        \* the server process: serving, shutting down or exited, and
                \* the keep-alive frames of its event streams
    put,        \* the PUT handlers: position and open transaction
    nput,       \* PUT requests received so far
    lastGet,    \* the reply of the latest GET /items or GET /items/archive
    hub,        \* NotificationHub.senders: user -> broadcast channel
    client,     \* the terminal clients: live-update reader and main loop
    hist,       \* history of each bucket: commits, last body committed,
                \* bodies of the PUTs answered 200
    local,      \* the local backend: the bucket files, and the latest read
    fs,         \* the local backend's directory: locks, temporary files,
                \* and the processes inside a store operation
    svc         \* the task service: the latest operation and its outcome

AuthVars == <<users, auth_rate_limiter, now, reply, authHist>>

vars ==
    <<rows, sessions, AuthVars, srv, put, nput, lastGet, hub, client, hist, local, fs, svc>>

Row(u, k, a, d, n) == [user |-> u, key |-> k, archived |-> a, data |-> d, nonce |-> n]

\* SELECT item_key, data, nonce FROM items WHERE user_id = $1 AND archived = $2
SelectRows(u, a) == {r \in rows : r.user = u /\ r.archived = a}

\* rows_to_encrypted_items: the rows collected into a map keyed by item_key.
rows_to_encrypted_items(rs) ==
    [k \in {r.key : r \in rs} |->
        LET r == CHOOSE x \in rs : x.key = k
        IN  EncryptedItemData(B64Encode(r.data), B64Encode(r.nonce))]

\* AuthUser with a lookup that takes a session's row whatever its expiry.
AuthUserAnyRow(tok) ==
    IF tok \in DOMAIN sessions THEN sessions[tok].user_id ELSE NoUser

\* AuthUser: the user of the bearer token's unexpired session.
AuthUser(tok) ==
    IF tok \in DOMAIN sessions /\ sessions[tok].expires_at > now
    THEN sessions[tok].user_id ELSE NoUser

\* ------------------------------------------------------ accounts, sessions

\* TB_SESSION_EXPIRY_DAYS, by default; a day in seconds.
session_expiry_days == 30
DaySeconds == 86400

\* A row of table sessions, and a row of table users.
SessionRow(u, e) == [user_id |-> u, expires_at |-> e]
UserRow(id, name, email, hash) ==
    [id |-> id, username |-> name, email |-> email, password |-> hash]

\* A text as the sequence of its characters; a character outside ASCII is
\* written by its name, and takes two bytes in UTF-8.
Utf8Width(c) == IF c = "e-acute" THEN 2 ELSE 1
RECURSIVE StrLen(_)
StrLen(s) == IF s = <<>> THEN 0 ELSE Utf8Width(Head(s)) + StrLen(Tail(s))
Contains(s, c) == \E i \in 1..Len(s) : s[i] = c

\* crate::auth: the stored hash of a password carries a salt and the
\* password; verification recomputes it.
hash_password(pw) == [argon2 |-> pw]
verify_password(pw, hash) == hash = hash_password(pw)

\* The accounts and the addresses of the scenarios.
NameAl == <<"a", "l">>
NameBo == <<"b", "o">>
MailAl == <<"a", "@", "x", ".", "y">>
MailBo == <<"b", "@", "x", ".", "y">>
PassAl == <<"p", "a", "s", "s", "w", "o", "r", "d">>
PassBo == <<"h", "u", "n", "t", "e", "r", "2", "2">>
Addrs == {"ip1", "ip2"}
NoHeader == <<>>
NoReply == [n |-> 0, route |-> "none", header |-> NoHeader, len |-> 0,
            status |-> 0, body |-> "", db |-> 0]
NoCheck == [ip |-> "none", at |-> 0, ok |-> TRUE]
Issued(ss) == {[token |-> t, user_id |-> ss[t].user_id] : t \in DOMAIN ss}
InitSessions ==
    [t \in {"t1", "t2"} |->
        SessionRow(IF t = "t1" THEN "u1" ELSE "u2", session_expiry_days * DaySeconds)]
InitUsers == {UserRow("u1", NameAl, MailAl, hash_password(PassAl)),
              UserRow("u2", NameBo, MailBo, hash_password(PassBo))}
InitAuthVars ==
    /\ users = InitUsers
    /\ auth_rate_limiter = [ip \in Addrs |-> <<>>]
    /\ now = 0
    /\ reply = NoReply
    /\ authHist = [last |-> NoCheck,
                   admitted |-> [ip \in Addrs |-> <<>>],
                   issued |-> Issued(InitSessions)]

\* ValidationOk without the check of the number of entries.
ValidationOkAnyCount(items) ==
    \A k \in DOMAIN items :
        /\ KeyLen(k) <= MaxKeyLen
        /\ TextLen(items[k].nonce) <= MaxNonceChars
        /\ TextLen(items[k].data) <= MaxDataChars

\* replace_items, before the transaction: the size checks.
ValidationOk(items) ==
    /\ Cardinality(DOMAIN items) <= MAX_ITEMS_PER_CATEGORY
    /\ \A k \in DOMAIN items :
        /\ KeyLen(k) <= MaxKeyLen
        /\ TextLen(items[k].nonce) <= MaxNonceChars
        /\ TextLen(items[k].data) <= MaxDataChars

IdlePut ==
    [pc |-> "idle", user |-> NoUser, archived |-> FALSE, body |-> Empty,
     todo |-> {}, snap |-> {}, del |-> {}, ins |-> {},
     status |-> 0, notified |-> 0, cver |-> 0, ndel |-> 0, nins |-> 0]

\* The transactions that are open: begun and neither committed nor rolled back.
InTx(p) == put[p].pc \in {"begun", "deleting", "inserting"}

\* The handler is between the arrival of its request and its reply.
InFlight(p) == put[p].pc \notin {"idle", "done"}

\* The bucket as a GET returns it.
Bucket(u, a) == rows_to_encrypted_items(SelectRows(u, a))

\* --------------------------------------------------------------- the hub

\* Capacity of a user's broadcast channel. The server builds the channel with
\* broadcast::channel(64); the model checks the ring at a smaller capacity,
\* and every formula below is stated in terms of it.
ChannelCapacity == 2

NoChannel == [open |-> FALSE, tail |-> 0, buf |-> <<>>, rx |-> 0]

\* SyncEvent::DataChanged { archived }. History: the user whose PUT sent it
\* and the number of that PUT's commit on its bucket (0: not committed).
DataChanged(a, u, v) == [archived |-> a, user |-> u, cver |-> v]

\* broadcast::Sender::send: with no receiver the value is returned to the
\* caller and nothing is stored; otherwise it is written at position tail and
\* the ring keeps the last ChannelCapacity values.
SenderSend(ch, ev) ==
    IF ch.rx = 0
    THEN ch
    ELSE LET all == Append(ch.buf, ev)
             n == Len(all)
         IN  [ch EXCEPT
                !.tail = @ + 1,
                !.buf = IF n > ChannelCapacity
                        THEN SubSeq(all, n - ChannelCapacity + 1, n)
                        ELSE all]

\* NotificationHub::notify
HubNotify(h, u, ev) ==
    IF h[u].open THEN [h EXCEPT ![u] = SenderSend(h[u], ev)] ELSE h

\* NotificationHub::subscribe: the channel is made on first use; the new
\* receiver starts at the channel's tail.
HubSubscribe(h, u) ==
    LET ch == IF h[u].open THEN h[u] ELSE [NoChannel EXCEPT !.open = TRUE]
    IN  [h EXCEPT ![u] = [ch EXCEPT !.rx = @ + 1]]

\* Dropping a broadcast::Receiver.
HubDropReceiver(h, u) == [h EXCEPT ![u].rx = @ - 1]

\* The value at position pos of the ring (the oldest retained is at
\* tail - Len(buf)).
SlotAt(ch, pos) == ch.buf[pos - (ch.tail - Len(ch.buf)) + 1]

\* RecvKind with a receiver that is not woken for a single waiting value.
RecvKindSleepy(ch, next) ==
    IF ch.tail - next <= 1 THEN "empty"
    ELSE IF ch.tail - next > ChannelCapacity THEN "lagged"
    ELSE "value"

\* broadcast::Receiver::recv at position next: nothing new, a value, or
\* Lagged when the slot of next has been overwritten.
RecvKind(ch, next) ==
    IF next = ch.tail THEN "empty"
    ELSE IF ch.tail - next > ChannelCapacity THEN "lagged"
    ELSE "value"

\* LagResume with a receiver that skips to the newest position.
LagResumeAtTail(ch) == ch.tail

\* The receiver's position after a Lagged: the oldest value still retained.
LagResume(ch) == ch.tail - ChannelCapacity

\* ------------------------------------------------------- PUT /items[/archive]

\* Two rows that the table's unique key (user_id, item_key, archived) keeps
\* from both being stored.
SameKey(r1, r2) ==
    r1.user = r2.user /\ r1.key = r2.key /\ r1.archived = r2.archived

\* The request arrives: the bearer token is resolved (401), the sizes are
\* checked (400), and pool.begin() opens the transaction.
PutReceive(p, tok, a, items) ==
    /\ ~InFlight(p)
    /\ \A q \in PutIds : q < p => InFlight(q)
    /\ nput' = nput + 1
    /\ LET u == AuthUser(tok)
           req == [IdlePut EXCEPT !.user = u, !.archived = a, !.body = items]
       IN  put' = [put EXCEPT ![p] =
                IF u = NoUser THEN [req EXCEPT !.pc = "done", !.status = 401]
                ELSE IF ~ValidationOk(items) THEN [req EXCEPT !.pc = "done", !.status = 400]
                ELSE [req EXCEPT !.pc = "begun"]]
    /\ UNCHANGED <<AuthVars, srv, fs, svc, local, rows, sessions, lastGet, hub, client, hist>>

\* PutDeleteStart with a DELETE that leaves out `AND archived = $2`.
PutDeleteStartBothBuckets(p) ==
    /\ put[p].pc = "begun"
    /\ put' = [put EXCEPT ![p].pc = "deleting",
                          ![p].snap = {r \in rows : r.user = put[p].user}]
    /\ UNCHANGED <<AuthVars, srv, fs, svc, local, rows, sessions, nput, lastGet, hub, client, hist>>

\* DELETE FROM items WHERE user_id = $1 AND archived = $2 starts: it sees the
\* rows committed now.
PutDeleteStart(p) ==
    /\ put[p].pc = "begun"
    /\ put' = [put EXCEPT ![p].pc = "deleting",
                          ![p].snap = SelectRows(put[p].user, put[p].archived)]
    /\ UNCHANGED <<AuthVars, srv, fs, svc, local, rows, sessions, nput, lastGet, hub, client, hist>>

\* The DELETE waits while another open transaction has deleted one of its
\* rows.
DeleteBlocked(p) ==
    \E q \in PutIds \ {p} : InTx(q) /\ put[q].del \cap put[p].snap # {}

\* PutDeleteFinish with a DELETE that removes only the rows whose key the
\* body names.
PutDeleteFinishBodyKeys(p) ==
    /\ put[p].pc = "deleting"
    /\ ~DeleteBlocked(p)
    /\ LET gone == {r \in put[p].snap \cap rows : r.key \in DOMAIN put[p].body}
       IN  put' = [put EXCEPT ![p].pc = "inserting",
                              ![p].del = gone,
                              ![p].ndel = Cardinality(gone),
                              ![p].snap = {},
                              ![p].todo = DOMAIN put[p].body]
    /\ UNCHANGED <<AuthVars, srv, fs, svc, local, rows, sessions, nput, lastGet, hub, client, hist>>

\* The DELETE ends: of the rows it saw, it deletes those still there.
PutDeleteFinish(p) ==
    /\ put[p].pc = "deleting"
    /\ ~DeleteBlocked(p)
    /\ put' = [put EXCEPT ![p].pc = "inserting",
                          ![p].del = put[p].snap \cap rows,
                          ![p].ndel = Cardinality(put[p].snap \cap rows),
                          ![p].snap = {},
                          ![p].todo = DOMAIN put[p].body]
    /\ UNCHANGED <<AuthVars, srv, fs, svc, local, rows, sessions, nput, lastGet, hub, client, hist>>

\* The INSERT of r waits while another open transaction has inserted, or has
\* deleted, a row of the same key.
InsertBlocked(p, r) ==
    \E q \in PutIds \ {p} :
        /\ InTx(q)
        /\ \E x \in put[q].ins \cup put[q].del : SameKey(x, r)

\* The INSERT of r meets a committed row of the same key that this
\* transaction has not deleted.
UniqueViolation(p, r) ==
    \E x \in rows \ put[p].del : SameKey(x, r)

Rollback(req, code) ==
    [req EXCEPT !.pc = "done", !.status = code,
                !.todo = {}, !.snap = {}, !.del = {}, !.ins = {}]

\* PutInsert with the INSERT run on the pool instead of the transaction: the
\* row is committed at once.
PutInsertOnPool(p, k) ==
    /\ put[p].pc = "inserting"
    /\ k \in put[p].todo
    /\ LET item == put[p].body[k]
           data == B64Decode(item.data)
           nonce == B64Decode(item.nonce)
           r == Row(put[p].user, k, put[p].archived, data, nonce)
       IN  IF data = DecodeError \/ nonce = DecodeError
           THEN /\ put' = [put EXCEPT ![p] = Rollback(@, 400)]
                /\ rows' = rows
           ELSE /\ put' = [put EXCEPT ![p].todo = @ \ {k}, ![p].nins = @ + 1]
                /\ rows' = {x \in rows : ~SameKey(x, r)} \cup {r}
    /\ UNCHANGED <<AuthVars, srv, fs, svc, local, sessions, nput, lastGet, hub, client, hist>>

\* One turn of `for (key, item) in items`: decode data and nonce (400 on
\* either failure), then INSERT the row (500 on a database error). The
\* HashMap yields the keys in no fixed order.
PutInsert(p, k) ==
    /\ put[p].pc = "inserting"
    /\ k \in put[p].todo
    /\ LET item == put[p].body[k]
           data == B64Decode(item.data)
           nonce == B64Decode(item.nonce)
           r == Row(put[p].user, k, put[p].archived, data, nonce)
       IN  IF data = DecodeError \/ nonce = DecodeError
           THEN put' = [put EXCEPT ![p] = Rollback(@, 400)]
           ELSE /\ ~InsertBlocked(p, r)
                /\ put' = [put EXCEPT ![p] =
                        IF UniqueViolation(p, r)
                        THEN Rollback(@, 500)
                        ELSE [@ EXCEPT !.ins = @ \cup {r}, !.todo = @ \ {k},
                                       !.nins = @ + 1]]
    /\ UNCHANGED <<AuthVars, srv, fs, svc, local, rows, sessions, nput, lastGet, hub, client, hist>>

\* The turns of `for (key, item) in items` that are left, run to the end
\* while no other transaction is open: 400 if a data or a nonce of them does
\* not decode, else every row is inserted.
PutInsertRest(p) ==
    /\ put[p].pc = "inserting"
    /\ put[p].todo # {}
    /\ \A q \in PutIds \ {p} : ~InTx(q)
    /\ LET RowOf(k) == Row(put[p].user, k, put[p].archived,
                           B64Decode(put[p].body[k].data),
                           B64Decode(put[p].body[k].nonce))
           new == {RowOf(k) : k \in put[p].todo}
           kept == {x \in rows \ put[p].del :
                        x.user = put[p].user /\ x.archived = put[p].archived}
       IN  put' = [put EXCEPT ![p] =
                IF \E r \in new : r.data = DecodeError \/ r.nonce = DecodeError
                THEN Rollback(@, 400)
                ELSE IF {x.key : x \in kept} \cap put[p].todo # {}
                THEN Rollback(@, 500)
                ELSE [@ EXCEPT !.ins = @ \cup new, !.todo = {},
                               !.nins = @ + Cardinality(new)]]
    /\ UNCHANGED <<AuthVars, srv, fs, svc, local, rows, sessions, nput, lastGet, hub, client, hist>>

\* tx.commit(): the deletes and the inserts become visible at once.
PutCommit(p) ==
    /\ put[p].pc = "inserting"
    /\ put[p].todo = {}
    /\ rows' = (rows \ put[p].del) \cup put[p].ins
    /\ hist' = [hist EXCEPT ![put[p].user][put[p].archived] =
                    [@ EXCEPT !.ver = @ + 1, !.last = put[p].body]]
    /\ put' = [put EXCEPT ![p].pc = "committed",
                          ![p].del = {}, ![p].ins = {},
                          ![p].cver = hist[put[p].user][put[p].archived].ver + 1]
    /\ UNCHANGED <<AuthVars, srv, fs, svc, local, sessions, nput, lastGet, hub, client>>

\* PutDbError with a handler that notifies whatever replace_items returned.
PutDbErrorNotified(p) ==
    /\ InTx(p)
    /\ hub' = HubNotify(hub, put[p].user, DataChanged(put[p].archived, put[p].user, 0))
    /\ put' = [put EXCEPT ![p] = [Rollback(@, 500) EXCEPT !.notified = @ + 1]]
    /\ UNCHANGED <<AuthVars, srv, fs, svc, local, rows, sessions, nput, lastGet, client, hist>>

\* A statement of the transaction (the DELETE, an INSERT, the commit) fails
\* with a database error: `?` returns, the transaction is dropped and rolled
\* back, the reply is 500.
PutDbError(p) ==
    /\ InTx(p)
    /\ put' = [put EXCEPT ![p] = Rollback(@, 500)]
    /\ UNCHANGED <<AuthVars, srv, fs, svc, local, rows, sessions, nput, lastGet, hub, client, hist>>

\* PutNotify run before the commit: the event of a transaction that is
\* still open.
PutNotifyEarly(p) ==
    /\ put[p].pc = "inserting"
    /\ put[p].notified = 0
    /\ hub' = HubNotify(hub, put[p].user,
                        DataChanged(put[p].archived, put[p].user,
                                    hist[put[p].user][put[p].archived].ver + 1))
    /\ put' = [put EXCEPT ![p].notified = @ + 1]
    /\ UNCHANGED <<AuthVars, srv, fs, svc, local, rows, sessions, nput, lastGet, client, hist>>

\* put_items / put_archive after replace_items returned Ok: notify.
PutNotify(p) ==
    /\ put[p].pc = "committed"
    /\ hub' = HubNotify(hub, put[p].user,
                        DataChanged(put[p].archived, put[p].user, put[p].cver))
    /\ put' = [put EXCEPT ![p].pc = "notified", ![p].notified = @ + 1]
    /\ UNCHANGED <<AuthVars, srv, fs, svc, local, rows, sessions, nput, lastGet, client, hist>>

\* The handler returns Ok(()): HTTP 200.
PutReply(p) ==
    /\ put[p].pc = "notified"
    /\ put' = [put EXCEPT ![p].pc = "done", ![p].status = 200]
    /\ hist' = [hist EXCEPT ![put[p].user][put[p].archived].ok = @ \cup {put[p].body}]
    /\ UNCHANGED <<AuthVars, srv, fs, svc, local, rows, sessions, nput, lastGet, hub, client>>

\* get_items / get_archive
GetItems(tok, a) ==
    /\ LET u == AuthUser(tok)
       IN  lastGet' = IF u = NoUser
                      THEN [status |-> 401, user |-> NoUser, archived |-> a,
                            items |-> Empty, last |-> Empty]
                      ELSE [status |-> 200, user |-> u, archived |-> a,
                            items |-> Bucket(u, a), last |-> hist[u][a].last]
    /\ UNCHANGED <<AuthVars, srv, fs, svc, local, rows, sessions, put, nput, hub, client, hist>>

\* ------------------------------------------------ GET /events and the client

Clients == {"c1", "c2"}

ViewModes == {"Board", "Timeline", "Archive", "Journal"}

\* decrypt_item fails on a nonce that is not 12 bytes long and on data that
\* did not decode.
DecryptFails(data, nonce) == nonce.len # 12 \/ data = DecodeError

\* decrypt_item: the plaintext item of a ciphertext under the client's key.
DecryptItem(data, nonce) == [item |-> data.tag]

\* The result of a read that failed.
DecryptError == [k \in {"error"} |-> [item |-> "error"]]

\* RemoteStorage::decrypt_items: every entry decoded and decrypted; the first
\* failure fails the read.
decrypt_items(m) ==
    IF \E k \in DOMAIN m : DecryptFails(B64Decode(m[k].data), B64Decode(m[k].nonce))
    THEN DecryptError
    ELSE [k \in DOMAIN m |-> DecryptItem(B64Decode(m[k].data), B64Decode(m[k].nonce))]

\* RemoteStorage::get / get_archive: GET the bucket and decrypt it.
RemoteGet(u, a) == decrypt_items(Bucket(u, a))

\* The event stream's frame for one item of the BroadcastStream: the bucket
\* name of a DataChanged, "items" for a Lagged.
FrameData(kind, ev) ==
    IF kind = "lagged" THEN "items"
    ELSE IF ev.archived THEN "archive" ELSE "items"

\* spawn_sse_thread: a data_changed frame becomes Event::DataChanged with
\* archived set iff the data line is "archive". History: the commit number
\* of the PUT behind the frame, and whether the frame is a Lagged's hint.
ClientEvent(data, v, lagged) == [archived |-> (data = "archive"), cver |-> v, lag |-> lagged]

\* Event::Tick
EventTick == [tick |-> TRUE]

\* The bucket a view shows.
ViewArchived(v) == (v = "Archive")

\* SseConnect with a receiver placed at the oldest value the channel retains.
SseConnectFromOldest(c) ==
    /\ client[c].running
    /\ client[c].sse = "down"
    /\ LET u == AuthUser(client[c].token)
       IN  /\ u # NoUser
           /\ hub' = HubSubscribe(hub, u)
           /\ client' = [client EXCEPT ![c].sse = "up",
                                       ![c].next = hub'[u].tail - Len(hub'[u].buf),
                                       ![c].since = hub'[u].tail]
    /\ UNCHANGED <<AuthVars, srv, fs, svc, local, rows, sessions, put, nput, lastGet, hist>>

\* The reader connects: GET /events is authenticated and subscribes.
\* History: since, the number of events sent on the channel before.
SseConnect(c) ==
    /\ client[c].running
    /\ client[c].sse = "down"
    /\ LET u == AuthUser(client[c].token)
       IN  /\ u # NoUser
           /\ hub' = HubSubscribe(hub, u)
           /\ client' = [client EXCEPT ![c].sse = "up",
                                       ![c].next = hub'[u].tail,
                                       ![c].since = hub'[u].tail]
    /\ UNCHANGED <<AuthVars, srv, fs, svc, local, rows, sessions, put, nput, lastGet, hist>>

\* The stream yields its next frame and the reader hands it to the main
\* loop: a value of the channel, or the refresh hint of a Lagged.
StreamNext(c) ==
    /\ client[c].running
    /\ client[c].sse = "up"
    /\ LET u == AuthUser(client[c].token)
           ch == hub[u]
           kind == RecvKind(ch, client[c].next)
       IN  /\ kind # "empty"
           /\ client' = [client EXCEPT
                ![c].next = IF kind = "lagged" THEN LagResume(ch) ELSE @ + 1,
                ![c].inbox = Append(@,
                    IF kind = "lagged"
                    THEN ClientEvent(FrameData(kind, DataChanged(FALSE, u, 0)), 0, TRUE)
                    ELSE LET ev == SlotAt(ch, client[c].next)
                         IN  ClientEvent(FrameData(kind, ev), ev.cver, FALSE))]
    /\ UNCHANGED <<AuthVars, srv, fs, svc, local, rows, sessions, put, nput, lastGet, hub, hist>>

\* The connection ends: the stream and its receiver are dropped; the reader
\* will reconnect.
SseDisconnect(c) ==
    /\ client[c].running
    /\ client[c].sse = "up"
    /\ hub' = HubDropReceiver(hub, AuthUser(client[c].token))
    /\ client' = [client EXCEPT ![c].sse = "down", ![c].next = 0, ![c].since = 0]
    /\ UNCHANGED <<AuthVars, srv, fs, svc, local, rows, sessions, put, nput, lastGet, hist>>

\* The client after loading bucket a into app.items; a read that fails ends
\* run_app.
Loaded(cl, u, a) ==
    LET got == RemoteGet(u, a)
    IN  IF got = DecryptError
        THEN [cl EXCEPT !.running = FALSE]
        ELSE [cl EXCEPT !.items = got]

\* run_app, Event::DataChanged: reload the archive in the archive view, the
\* active items in the other views, nothing when the event is for the bucket
\* not shown.
ClientDataChanged(c) ==
    /\ client[c].running
    /\ client[c].inbox # <<>>
    /\ Head(client[c].inbox) # EventTick
    /\ LET ev == Head(client[c].inbox)
           u == AuthUser(client[c].token)
           cl == [client[c] EXCEPT !.inbox = Tail(@)]
       IN  client' = [client EXCEPT ![c] =
                IF client[c].view = "Archive" /\ ev.archived
                THEN Loaded(cl, u, TRUE)
                ELSE IF client[c].view # "Archive" /\ ~ev.archived
                THEN Loaded(cl, u, FALSE)
                ELSE cl]
    /\ UNCHANGED <<AuthVars, srv, fs, svc, local, rows, sessions, put, nput, lastGet, hub, hist>>

\* App::set_view: on a change of view the shown bucket is loaded.
ClientSetView(c, v) ==
    /\ client[c].running
    /\ client[c].view # v
    /\ client' = [client EXCEPT ![c] =
            Loaded([@ EXCEPT !.view = v], AuthUser(client[c].token), ViewArchived(v))]
    /\ UNCHANGED <<AuthVars, srv, fs, svc, local, rows, sessions, put, nput, lastGet, hub, hist>>

\* A client after App::new on an empty account: the board view, nothing
\* loaded, the reader not yet connected.
InitClient(tok) ==
    [token |-> tok, running |-> TRUE, sse |-> "down", next |-> 0, since |-> 0,
     inbox |-> <<>>, view |-> "Board", items |-> Empty]

\* -------------------------------------------------------- the server process

\* main after TcpListener::bind: axum::serve accepts connections. History:
\* ka, the parity of the keep-alive frames each client's stream was sent.
Serving == [phase |-> "serving", signal |-> "none", code |-> 0, ka |-> [c \in Clients |-> 0]]

\* ------------------------------------------------------- board names, items

\* A string is the sequence of its characters.
DEFAULT_BOARD == <<"M", "y", " ", "B", "o", "a", "r", "d">>

AliasMyboard == <<"m", "y", "b", "o", "a", "r", "d">>

AliasMyBoard == <<"m", "y", " ", "b", "o", "a", "r", "d">>

\* char::to_ascii_lowercase on the letters the model's names use.
ToAsciiLower(ch) ==
    CASE ch = "M" -> "m"
      [] ch = "Y" -> "y"
      [] ch = "B" -> "b"
      [] ch = "C" -> "c"
      [] ch = "O" -> "o"
      [] ch = "A" -> "a"
      [] ch = "R" -> "r"
      [] ch = "D" -> "d"
      [] ch = "I" -> "i"
      [] ch = "N" -> "n"
      [] ch = "G" -> "g"
      [] OTHER -> ch

\* str::eq_ignore_ascii_case
EqIgnoreAsciiCase(x, y) ==
    /\ Len(x) = Len(y)
    /\ \A i \in 1..Len(x) : ToAsciiLower(x[i]) = ToAsciiLower(y[i])

RECURSIVE TrimStartMatches(_, _)
\* str::trim_start_matches(ch): every leading ch is removed.
TrimStartMatches(str, ch) ==
    IF str # <<>> /\ Head(str) = ch THEN TrimStartMatches(Tail(str), ch) ELSE str

RECURSIVE TrimEnd(_)
TrimEnd(str) ==
    IF str # <<>> /\ str[Len(str)] = " " THEN TrimEnd(SubSeq(str, 1, Len(str) - 1)) ELSE str

\* str::trim
Trim(str) == TrimEnd(TrimStartMatches(str, " "))

\* normalize_board_name without trim_start_matches('@').
normalize_board_name_keeps_at(raw) ==
    LET trimmed == Trim(raw)
    IN  IF \/ trimmed = <<>>
           \/ EqIgnoreAsciiCase(trimmed, AliasMyboard)
           \/ EqIgnoreAsciiCase(trimmed, AliasMyBoard)
        THEN DEFAULT_BOARD
        ELSE trimmed

\* board::normalize_board_name
normalize_board_name(raw) ==
    LET trimmed == Trim(TrimStartMatches(Trim(raw), "@"))
    IN  IF \/ trimmed = <<>>
           \/ EqIgnoreAsciiCase(trimmed, AliasMyboard)
           \/ EqIgnoreAsciiCase(trimmed, AliasMyBoard)
        THEN DEFAULT_BOARD
        ELSE trimmed

\* board::deserialize_boards: each name of the list normalized.
deserialize_boards(raw) == [i \in 1..Len(raw) |-> normalize_board_name(raw[i])]

\* Option<String>: None, or Some of a string.
None == <<>>

Some(x) == <<x>>

\* StorageItem::Task(Task { .. })
Task(id, flag, description, starred, complete, progress, priority, boards, tags) ==
    [variant |-> "Task", id |-> id, is_task_flag |-> flag, description |-> description,
     is_starred |-> starred, is_complete |-> complete, in_progress |-> progress,
     priority |-> priority, boards |-> boards, tags |-> tags]

\* StorageItem::Note(Note { .. })
Note(id, flag, description, body, starred, boards, tags) ==
    [variant |-> "Note", id |-> id, is_task_flag |-> flag, description |-> description,
     body |-> body, is_starred |-> starred, boards |-> boards, tags |-> tags]

\* The date fields of every item of the model.
ItemDate == "Fri Nov 06 2026"

ItemTimestamp == 1

\* The fields both structs serialize under the same names.
HeaderJson(item) ==
    ("_id" :> item.id) @@ ("_date" :> ItemDate) @@ ("_timestamp" :> ItemTimestamp)
        @@ ("_isTask" :> item.is_task_flag) @@ ("description" :> item.description)
        @@ ("isStarred" :> item.is_starred) @@ ("boards" :> item.boards)
        @@ (IF item.tags = <<>> THEN <<>> ELSE ("tags" :> item.tags))

\* derive(Serialize) for Task: tags is skipped when empty.
TaskToJson(item) ==
    HeaderJson(item) @@ ("isComplete" :> item.is_complete)
        @@ ("inProgress" :> item.in_progress) @@ ("priority" :> item.priority)

\* NoteToJson with a body that is never written.
NoteToJsonNoBody(item) == HeaderJson(item)

\* derive(Serialize) for Note: body is skipped when None, tags when empty.
NoteToJson(item) ==
    HeaderJson(item) @@ (IF item.body = None THEN <<>> ELSE ("body" :> item.body[1]))

\* Serialize for StorageItem (untagged): the inner struct as it is.
ItemToJson(item) == IF item.variant = "Task" THEN TaskToJson(item) ELSE NoteToJson(item)

\* A value that failed to deserialize.
JsonError == [ok |-> FALSE, item |-> Note(0, FALSE, "", None, FALSE, <<>>, <<>>)]

\* The fields derive(Deserialize) requires of either struct.
HeaderFields == {"_id", "_date", "_timestamp", "_isTask", "description", "isStarred", "boards"}

\* derive(Deserialize) for Task: a missing field is an error, except tags;
\* fields the struct does not have are ignored; boards go through
\* deserialize_boards.
TaskFromJson(v) ==
    IF HeaderFields \cup {"isComplete", "inProgress", "priority"} \subseteq DOMAIN v
    THEN [ok |-> TRUE,
          item |-> Task(v["_id"], v["_isTask"], v["description"], v["isStarred"],
                        v["isComplete"], v["inProgress"], v["priority"],
                        deserialize_boards(v["boards"]),
                        IF "tags" \in DOMAIN v THEN v["tags"] ELSE <<>>)]
    ELSE JsonError

\* derive(Deserialize) for Note: body and tags may be missing.
NoteFromJson(v) ==
    IF HeaderFields \subseteq DOMAIN v
    THEN [ok |-> TRUE,
          item |-> Note(v["_id"], v["_isTask"], v["description"],
                        IF "body" \in DOMAIN v THEN Some(v["body"]) ELSE None,
                        v["isStarred"], deserialize_boards(v["boards"]),
                        IF "tags" \in DOMAIN v THEN v["tags"] ELSE <<>>)]
    ELSE JsonError

\* impl Deserialize for StorageItem: the variant is chosen by _isTask, a task
\* when the field is missing.
ItemFromJson(v) ==
    LET is_task == IF "_isTask" \in DOMAIN v THEN v["_isTask"] ELSE TRUE
    IN  IF is_task THEN TaskFromJson(v) ELSE NoteFromJson(v)

\* ------------------------------------------------------------ local backend

\* A bucket file that does not exist.
NoFile == [exists |-> FALSE, json |-> <<>>]

\* LocalStorage::write_json_file: the map serialized, written to a temporary
\* file and renamed over the bucket file.
write_json_file(data) ==
    [exists |-> TRUE, json |-> [k \in DOMAIN data |-> ItemToJson(data[k])]]

\* LocalStorage::read_json_file: the empty map when the file does not exist;
\* otherwise every entry deserialized, the first failure failing the read.
read_json_file(file) ==
    IF ~file.exists THEN [ok |-> TRUE, items |-> <<>>]
    ELSE IF \E k \in DOMAIN file.json : ~ItemFromJson(file.json[k]).ok
    THEN [ok |-> FALSE, items |-> <<>>]
    ELSE [ok |-> TRUE, items |-> [k \in DOMAIN file.json |-> ItemFromJson(file.json[k]).item]]

\* No read since the last write.
NoRead == [valid |-> FALSE, archived |-> FALSE, ok |-> TRUE, items |-> <<>>, of |-> <<>>]

\* StorageBackend::set / set_archive of LocalStorage, under the bucket's
\* lock. History: the map written.
LocalSet(a, data) ==
    /\ local' = [local EXCEPT !.disk[a] = write_json_file(data),
                              !.written[a] = data,
                              !.nset = @ + 1,
                              !.got = NoRead]
    /\ UNCHANGED <<AuthVars, srv, fs, svc, rows, sessions, put, nput, lastGet, hub, client, hist>>

\* StorageBackend::get / get_archive of LocalStorage, under the bucket's
\* lock. History: the map last written to the bucket.
LocalGet(a) ==
    /\ LET res == read_json_file(local.disk[a])
       IN  local' = [local EXCEPT !.got = [valid |-> local.disk[a].exists, archived |-> a,
                                           ok |-> res.ok, items |-> res.items,
                                           of |-> local.written[a]]]
    /\ UNCHANGED <<AuthVars, srv, fs, svc, rows, sessions, put, nput, lastGet, hub, client, hist>>

\* ------------------------------------------- local backend: steps of a call

\* The variables of the server and of the terminal client.
ServerVars == <<rows, sessions, AuthVars, srv, put, nput, lastGet, hub, client, hist>>

\* Processes that have opened the same taskbook directory.
Procs == {"p1", "p2"}

NoProc == "none"

\* No temporary file of the process in .temp/.
NoTemp == [exists |-> FALSE, archived |-> FALSE, file |-> NoFile, whole |-> FALSE]

\* A process outside every store operation.
IdleProc ==
    [pc |-> "idle", op |-> "none", archived |-> FALSE, data |-> <<>>,
     res |-> [valid |-> FALSE, ok |-> TRUE, items |-> <<>>, torn |-> FALSE]]

\* The process is inside a read or a write of a bucket file: past
\* lock_exclusive and before its return.
Inside(p) == fs.proc[p].pc \in {"held", "json", "temp", "written", "renamed", "read"}

\* LocalStorage::new of a process: ensure_directories, whose clean_temp_dir
\* removes every file of .temp/, those of other processes included.
FsNew(p) ==
    /\ fs.proc[p].pc = "down"
    /\ fs' = [fs EXCEPT !.proc[p] = IdleProc,
                        !.temp = [q \in Procs |-> NoTemp]]
    /\ UNCHANGED <<ServerVars, svc, local>>

\* StorageBackend::get / get_archive / set / set_archive is called:
\* lock_file creates the lock file of the bucket and asks for its lock.
FsCall(p, op, a, data) ==
    /\ fs.proc[p].pc = "idle"
    /\ fs' = [fs EXCEPT !.proc[p] = [IdleProc EXCEPT !.pc = "lock", !.op = op,
                                                     !.archived = a, !.data = data],
                        !.ncall = @ + 1]
    /\ UNCHANGED <<ServerVars, svc, local>>

\* lock_file with a lock that another holder does not exclude.
FsLockShared(p) ==
    /\ fs.proc[p].pc = "lock"
    /\ fs' = [fs EXCEPT !.proc[p].pc = "held",
                        !.lock[fs.proc[p].archived] = p]
    /\ UNCHANGED <<ServerVars, svc, local>>

\* lock_file: lock_exclusive returns once no other open file holds the lock
\* of the bucket.
FsLock(p) ==
    /\ fs.proc[p].pc = "lock"
    /\ fs.lock[fs.proc[p].archived] = NoProc
    /\ fs' = [fs EXCEPT !.proc[p].pc = "held",
                        !.lock[fs.proc[p].archived] = p]
    /\ UNCHANGED <<ServerVars, svc, local>>

\* read_json_file: the bucket file read and parsed; a file cut short does
\* not parse.
FsRead(p) ==
    /\ fs.proc[p].pc = "held" /\ fs.proc[p].op = "get"
    /\ LET a == fs.proc[p].archived
           r == read_json_file(local.disk[a])
       IN  fs' = [fs EXCEPT !.proc[p].pc = "read",
                            !.proc[p].res =
                                [valid |-> TRUE, ok |-> r.ok /\ ~fs.torn[a],
                                 items |-> r.items, torn |-> fs.torn[a]]]
    /\ UNCHANGED <<ServerVars, svc, local>>

\* write_json_file: serde_json::to_string_pretty and get_temp_file.
FsSerialize(p) ==
    /\ fs.proc[p].pc = "held" /\ fs.proc[p].op = "set"
    /\ fs' = [fs EXCEPT !.proc[p].pc = "json"]
    /\ UNCHANGED <<ServerVars, svc, local>>

\* fs::write that creates the bucket file itself and starts to fill it.
FsWriteStartInPlace(p) ==
    /\ fs.proc[p].pc = "json"
    /\ fs' = [fs EXCEPT !.proc[p].pc = "temp",
                        !.torn[fs.proc[p].archived] = TRUE]
    /\ local' = [local EXCEPT !.disk[fs.proc[p].archived] =
                    write_json_file(fs.proc[p].data)]
    /\ UNCHANGED <<ServerVars, svc>>

\* write_json_file: fs::write creates the temporary file and starts to fill
\* it.
FsWriteStart(p) ==
    /\ fs.proc[p].pc = "json"
    /\ fs' = [fs EXCEPT !.proc[p].pc = "temp",
                        !.temp[p] = [exists |-> TRUE, archived |-> fs.proc[p].archived,
                                     file |-> write_json_file(fs.proc[p].data),
                                     whole |-> FALSE]]
    /\ UNCHANGED <<ServerVars, svc, local>>

\* write_json_file: fs::write has written the last byte; a file that was
\* removed meanwhile stays removed.
FsWriteEnd(p) ==
    /\ fs.proc[p].pc = "temp"
    /\ fs' = [fs EXCEPT !.proc[p].pc = "written",
                        !.temp[p] = IF @.exists THEN [@ EXCEPT !.whole = TRUE] ELSE @]
    /\ UNCHANGED <<ServerVars, svc, local>>

\* FsRename that writes the bucket file itself when the temporary file is
\* gone.
FsRenameOrWrite(p) ==
    /\ fs.proc[p].pc = "written"
    /\ LET a == fs.proc[p].archived
       IN  /\ fs' = [fs EXCEPT !.proc[p].pc = "renamed", !.temp[p] = NoTemp]
           /\ local' = [local EXCEPT !.disk[a] = write_json_file(fs.proc[p].data),
                                     !.written[a] = fs.proc[p].data]
    /\ UNCHANGED <<ServerVars, svc>>

\* write_json_file: fs::rename puts the temporary file in the place of the
\* bucket file in one step; it fails when the temporary file is gone.
\* History: the map the bucket file now holds.
FsRename(p) ==
    /\ fs.proc[p].pc = "written"
    /\ LET a == fs.proc[p].archived
       IN  IF fs.temp[p].exists
           THEN /\ fs' = [fs EXCEPT !.proc[p].pc = "renamed",
                                    !.temp[p] = NoTemp,
                                    !.torn[a] = ~fs.temp[p].whole]
                /\ local' = [local EXCEPT !.disk[a] = fs.temp[p].file,
                                          !.written[a] = fs.proc[p].data]
           ELSE /\ fs' = [fs EXCEPT !.proc[p] = [IdleProc EXCEPT !.res.ok = FALSE],
                                    !.lock[a] = NoProc]
                /\ UNCHANGED local
    /\ UNCHANGED <<ServerVars, svc>>

\* The operation returns: _lock is dropped, which closes the lock file and
\* releases the lock.
FsReturn(p) ==
    /\ fs.proc[p].pc \in {"renamed", "read"}
    /\ fs' = [fs EXCEPT !.proc[p] = [IdleProc EXCEPT !.res = fs.proc[p].res],
                        !.lock[fs.proc[p].archived] = NoProc]
    /\ UNCHANGED <<ServerVars, svc, local>>

\* A step of the write fails (`?`): the operation returns the error, its
\* lock released, whatever it wrote to .temp/ left there.
FsFail(p) ==
    /\ fs.proc[p].pc \in {"held", "json", "temp"} /\ fs.proc[p].op = "set"
    /\ fs' = [fs EXCEPT !.proc[p] = [IdleProc EXCEPT !.res.ok = FALSE],
                        !.lock[fs.proc[p].archived] = NoProc]
    /\ UNCHANGED <<ServerVars, svc, local>>

\* The process stops at any step: the system closes its files, which
\* releases its lock; its temporary file stays.
FsStop(p) ==
    /\ fs.proc[p].pc # "down"
    /\ fs' = [fs EXCEPT !.proc[p] = [IdleProc EXCEPT !.pc = "down"],
                        !.lock = [a \in BOOLEAN |-> IF fs.lock[a] = p THEN NoProc ELSE fs.lock[a]]]
    /\ UNCHANGED <<ServerVars, svc, local>>

\* ------------------------------------------------------------ task service

\* Service operations in one run of the service specification.
MaxSvcCalls == 2

\* The largest id of the model: keys above it are not allocated.
MaxKey == 9

Digits == <<"0", "1", "2", "3", "4", "5", "6", "7", "8", "9">>

RECURSIVE to_string(_)
\* u64::to_string
to_string(n) == IF n < 10 THEN Digits[n + 1] ELSE to_string(n \div 10) \o Digits[(n % 10) + 1]

\* k.parse::<u64>().ok() on the keys the service writes.
parse_u64(k) ==
    IF \E n \in 0..(MaxKey + 1) : to_string(n) = k
    THEN Some(CHOOSE n \in 0..(MaxKey + 1) : to_string(n) = k)
    ELSE None

\* Taskbook::get_data: the active bucket as the store returns it.
get_data == read_json_file(local.disk[FALSE]).items

\* Taskbook::get_archive
get_archive == read_json_file(local.disk[TRUE]).items

\* Taskbook::get_ids: the keys that parse as numbers.
get_ids(data) == {parse_u64(k)[1] : k \in {x \in DOMAIN data : parse_u64(x) # None}}

\* Iterator::max
SetMax(S) == CHOOSE m \in S : \A x \in S : x <= m

\* generate_id with the number of entries in the place of the largest key.
generate_id_count(data) == Cardinality(DOMAIN data) + 1

\* Taskbook::generate_id: the largest numeric key plus one, 1 for no key.
generate_id(data) == SetMax(get_ids(data) \cup {0}) + 1

\* remove_duplicates that keeps every id.
remove_duplicates_none(ids) == ids

RECURSIVE remove_duplicates(_)
\* Taskbook::remove_duplicates: the first occurrence of each id, in order.
remove_duplicates(ids) ==
    IF ids = <<>> THEN <<>>
    ELSE <<Head(ids)>> \o remove_duplicates(SelectSeq(Tail(ids), LAMBDA x : x # Head(ids)))

\* Ok(value) of a service operation.
Ok(v) == [ok |-> TRUE, id |-> 0, value |-> v]

\* Err(TaskbookError::InvalidId(n))
InvalidId(n) == [ok |-> FALSE, id |-> n, value |-> 0]

\* validate_ids that passes over the ids it does not find.
validate_ids_lenient(input_ids, existing_ids) ==
    IF input_ids = <<>> THEN [ok |-> FALSE, id |-> 0, ids |-> <<>>]
    ELSE [ok |-> TRUE, id |-> 0,
          ids |-> SelectSeq(remove_duplicates(input_ids), LAMBDA x : x \in existing_ids)]

\* Taskbook::validate_ids / validate_ids_silent: the ids without duplicates,
\* or InvalidId of the first of them that is not a key (0 for no id).
validate_ids(input_ids, existing_ids) ==
    IF input_ids = <<>> THEN [ok |-> FALSE, id |-> 0, ids |-> <<>>]
    ELSE LET unique_ids == remove_duplicates(input_ids)
             bad == {i \in 1..Len(unique_ids) : unique_ids[i] \notin existing_ids}
         IN  IF bad # {}
             THEN [ok |-> FALSE, id |-> unique_ids[CHOOSE i \in bad : \A j \in bad : i <= j],
                   ids |-> <<>>]
             ELSE [ok |-> TRUE, id |-> 0, ids |-> unique_ids]

\* u8::clamp(1, 3)
Clamp(p) == IF p < 1 THEN 1 ELSE IF p > 3 THEN 3 ELSE p

\* Task::new
Task_new(id, description, boards, priority) ==
    Task(id, TRUE, description, FALSE, FALSE, FALSE, Clamp(priority), boards, <<>>)

\* Note::new
Note_new(id, description, boards) == Note(id, FALSE, description, None, FALSE, boards, <<>>)

\* check_tasks with a task that stays in progress.
check_keeps_progress(item) ==
    IF item.variant = "Task" THEN [item EXCEPT !.is_complete = ~@] ELSE item

\* check_tasks / check_tasks_silent, one item.
check(item) ==
    IF item.variant = "Task"
    THEN [item EXCEPT !.in_progress = FALSE, !.is_complete = ~@]
    ELSE item

\* begin_tasks / begin_tasks_silent, one item.
begin(item) ==
    IF item.variant = "Task"
    THEN [item EXCEPT !.is_complete = FALSE, !.in_progress = ~@]
    ELSE item

\* star_items / star_items_silent, one item.
star(item) == [item EXCEPT !.is_starred = ~@]

\* The body of the loop over the validated ids.
Mutate(op, item) ==
    CASE op = "check" -> check(item)
      [] op = "begin" -> begin(item)
      [] op = "star" -> star(item)

RECURSIVE mutate_each(_, _, _)
\* for id in validated_ids { if let Some(item) = data.get_mut(..) { .. } }
mutate_each(data, ids, op) ==
    IF ids = <<>> THEN data
    ELSE LET k == to_string(Head(ids))
         IN  mutate_each(IF k \in DOMAIN data THEN [data EXCEPT ![k] = Mutate(op, @)] ELSE data,
                         Tail(ids), op)

\* HashMap::insert
MapInsert(data, k, item) == (k :> item) @@ data

\* HashMap::remove
MapRemove(data, k) == [x \in DOMAIN data \ {k} |-> data[x]]

\* save_item_to_archive with the item's id left as it was.
save_item_to_archive_same_id(file, item) ==
    LET archive == read_json_file(file).items
        archive_id == generate_id(archive)
    IN  write_json_file(MapInsert(archive, to_string(archive_id), item))

\* Taskbook::save_item_to_archive, on the archive file as it is: read,
\* insert under a new id, write.
save_item_to_archive(file, item) ==
    LET archive == read_json_file(file).items
        archive_id == generate_id(archive)
    IN  write_json_file(MapInsert(archive, to_string(archive_id),
                                  [item EXCEPT !.id = archive_id]))

\* save_item_to_storage with the item's id left as it was.
save_item_to_storage_same_id(file, item) ==
    LET data == read_json_file(file).items
        restore_id == generate_id(data)
    IN  write_json_file(MapInsert(data, to_string(restore_id), item))

\* Taskbook::save_item_to_storage
save_item_to_storage(file, item) ==
    LET data == read_json_file(file).items
        restore_id == generate_id(data)
    IN  write_json_file(MapInsert(data, to_string(restore_id),
                                  [item EXCEPT !.id = restore_id]))

RECURSIVE move_each(_, _, _, _)
\* for id in ids { if let Some(item) = data.remove(..) { save_item_to_..(item)? } }
\* The source map in memory and the destination file after the loop.
move_each(data, ids, file, archived) ==
    IF ids = <<>> THEN [data |-> data, file |-> file]
    ELSE LET k == to_string(Head(ids))
         IN  IF k \in DOMAIN data
             THEN move_each(MapRemove(data, k), Tail(ids),
                            IF archived THEN save_item_to_archive(file, data[k])
                            ELSE save_item_to_storage(file, data[k]),
                            archived)
             ELSE move_each(data, Tail(ids), file, archived)

\* The operation returns. History: its name, arguments, result, and the
\* number of store writes it issued.
ServiceReturn(op, arg, res, writes, active, archive) ==
    /\ svc' = [op |-> op, arg |-> arg, res |-> res, writes |-> writes, n |-> svc.n + 1]
    /\ local' = [local EXCEPT !.disk = [a \in BOOLEAN |-> IF a THEN archive ELSE active]]
    /\ UNCHANGED <<ServerVars, fs>>

\* An operation that returns an error before any store write.
ServiceError(op, arg, res) ==
    ServiceReturn(op, arg, res, 0, local.disk[FALSE], local.disk[TRUE])

\* An operation that ends in save(&data).
ServiceSave(op, arg, res, data) ==
    ServiceReturn(op, arg, res, 1, write_json_file(data), local.disk[TRUE])

\* check_tasks / check_tasks_silent: validate, mutate each item, save.
check_tasks(ids) ==
    /\ svc.n < MaxSvcCalls
    /\ LET data == get_data
           v == validate_ids(ids, get_ids(data))
       IN  IF ~v.ok THEN ServiceError("check", ids, InvalidId(v.id))
           ELSE ServiceSave("check", ids, Ok(0), mutate_each(data, v.ids, "check"))

\* begin_tasks / begin_tasks_silent
begin_tasks(ids) ==
    /\ svc.n < MaxSvcCalls
    /\ LET data == get_data
           v == validate_ids(ids, get_ids(data))
       IN  IF ~v.ok THEN ServiceError("begin", ids, InvalidId(v.id))
           ELSE ServiceSave("begin", ids, Ok(0), mutate_each(data, v.ids, "begin"))

\* star_items / star_items_silent
star_items(ids) ==
    /\ svc.n < MaxSvcCalls
    /\ LET data == get_data
           v == validate_ids(ids, get_ids(data))
       IN  IF ~v.ok THEN ServiceError("star", ids, InvalidId(v.id))
           ELSE ServiceSave("star", ids, Ok(0), mutate_each(data, v.ids, "star"))

\* delete_items / delete_items_silent
delete_items(ids) ==
    /\ svc.n < MaxSvcCalls
    /\ LET data == get_data
           v == validate_ids(ids, get_ids(data))
           m == move_each(data, v.ids, local.disk[TRUE], TRUE)
       IN  IF ~v.ok THEN ServiceError("delete", ids, InvalidId(v.id))
           ELSE ServiceReturn("delete", ids, Ok(0), Len(v.ids) + 1,
                              write_json_file(m.data), m.file)

\* restore_items / restore_items_silent
restore_items(ids) ==
    /\ svc.n < MaxSvcCalls
    /\ LET archive == get_archive
           v == validate_ids(ids, get_ids(archive))
           m == move_each(archive, v.ids, local.disk[FALSE], FALSE)
       IN  IF ~v.ok THEN ServiceError("restore", ids, InvalidId(v.id))
           ELSE ServiceReturn("restore", ids, Ok(0), Len(v.ids) + 1,
                              m.file, write_json_file(m.data))

\* The sequences that list every element of S once.
Orders(S) ==
    {s \in [1..Cardinality(S) -> S] : \A i, j \in 1..Cardinality(S) : s[i] = s[j] => i = j}

\* clear with every task that is complete or in progress taken for complete.
ids_to_delete_started(data) ==
    {parse_u64(k)[1] : k \in {x \in DOMAIN data :
        /\ data[x].variant = "Task"
        /\ (data[x].is_complete \/ data[x].in_progress)
        /\ parse_u64(x) # None}}

\* clear / clear_silent: the ids of the complete tasks.
ids_to_delete(data) ==
    {parse_u64(k)[1] : k \in {x \in DOMAIN data :
        /\ data[x].variant = "Task"
        /\ data[x].is_complete
        /\ parse_u64(x) # None}}

\* clear / clear_silent: the complete tasks, in the order the map yields
\* them, are moved to the archive; the count is returned.
clear ==
    /\ svc.n < MaxSvcCalls
    /\ LET data == get_data
       IN  \E ids \in Orders(ids_to_delete(data)) :
               IF ids = <<>> THEN ServiceError("clear", <<>>, Ok(0))
               ELSE LET m == move_each(data, ids, local.disk[TRUE], TRUE)
                    IN  ServiceReturn("clear", <<>>, Ok(Len(ids)), Len(ids) + 1,
                                      write_json_file(m.data), m.file)

\* board::board_eq
board_eq(x, y) == EqIgnoreAsciiCase(x, y)

RECURSIVE dedupe_boards(_, _)
\* The loop that keeps a board unless one equal to it, case ignored, is kept.
dedupe_boards(kept, boards) ==
    IF boards = <<>> THEN kept
    ELSE dedupe_boards(IF \E i \in 1..Len(kept) : board_eq(kept[i], Head(boards))
                       THEN kept ELSE Append(kept, Head(boards)),
                       Tail(boards))

\* board::parse_cli_input, the boards: the `@` words normalized, the default
\* board for none, duplicates removed.
parse_cli_boards(words) ==
    LET boards == [i \in 1..Len(words) |-> normalize_board_name(words[i])]
    IN  dedupe_boards(<<>>, IF boards = <<>> THEN <<DEFAULT_BOARD>> ELSE boards)

\* create_task_direct: the boards and the priority as the caller gives them.
create_task_direct(boards, description, priority) ==
    /\ svc.n < MaxSvcCalls
    /\ LET data == get_data
           id == generate_id(data)
           arg == [boards |-> boards, description |-> description, priority |-> priority]
       IN  /\ id <= MaxKey
           /\ IF description = "" THEN ServiceError("create_task_direct", arg, InvalidId(0))
              ELSE ServiceSave("create_task_direct", arg, Ok(id),
                               MapInsert(data, to_string(id),
                                         Task_new(id, description, boards, priority)))

\* create_note_direct
create_note_direct(boards, description) ==
    /\ svc.n < MaxSvcCalls
    /\ LET data == get_data
           id == generate_id(data)
           arg == [boards |-> boards, description |-> description]
       IN  /\ id <= MaxKey
           /\ IF description = "" THEN ServiceError("create_note_direct", arg, InvalidId(0))
              ELSE ServiceSave("create_note_direct", arg, Ok(id),
                               MapInsert(data, to_string(id), Note_new(id, description, boards)))

\* create_task: the words of the command line, the `@` words apart; the
\* priority is that of a `p:1`, `p:2` or `p:3` word, 1 for none.
create_task(board_words, description, priority) ==
    /\ svc.n < MaxSvcCalls
    /\ LET data == get_data
           id == generate_id(data)
           boards == parse_cli_boards(board_words)
           arg == [boards |-> board_words, description |-> description, priority |-> priority]
       IN  /\ id <= MaxKey
           /\ priority \in 1..3
           /\ IF description = "" THEN ServiceError("create_task", arg, InvalidId(0))
              ELSE ServiceSave("create_task", arg, Ok(id),
                               MapInsert(data, to_string(id),
                                         Task_new(id, description, boards, priority)))

\* update_priority_silent: the level as the caller gives it.
update_priority_silent(id, priority) ==
    /\ svc.n < MaxSvcCalls
    /\ LET data == get_data
           v == validate_ids(<<id>>, get_ids(data))
           k == to_string(id)
       IN  IF ~v.ok THEN ServiceError("update_priority_silent", <<id, priority>>, InvalidId(v.id))
           ELSE ServiceSave("update_priority_silent", <<id, priority>>, Ok(0),
                            IF k \in DOMAIN data /\ data[k].variant = "Task"
                            THEN [data EXCEPT ![k].priority = priority] ELSE data)

\* update_priority: the level is the first word that is "1", "2" or "3";
\* none is an error.
update_priority(id, word) ==
    /\ svc.n < MaxSvcCalls
    /\ LET data == get_data
           v == validate_ids(<<id>>, get_ids(data))
           k == to_string(id)
           level == parse_u64(word)
       IN  IF word \notin {"1", "2", "3"}
           THEN ServiceError("update_priority", <<id, word>>, InvalidId(0))
           ELSE IF ~v.ok THEN ServiceError("update_priority", <<id, word>>, InvalidId(v.id))
           ELSE ServiceSave("update_priority", <<id, word>>, Ok(0),
                            IF k \in DOMAIN data /\ data[k].variant = "Task"
                            THEN [data EXCEPT ![k].priority = level[1]] ELSE data)

\* move_boards_silent: the boards normalized, whatever their number.
move_boards_silent(id, boards) ==
    /\ svc.n < MaxSvcCalls
    /\ LET data == get_data
           v == validate_ids(<<id>>, get_ids(data))
           k == to_string(id)
           normalized == [i \in 1..Len(boards) |-> normalize_board_name(boards[i])]
       IN  IF ~v.ok THEN ServiceError("move_boards_silent", <<id, boards>>, InvalidId(v.id))
           ELSE ServiceSave("move_boards_silent", <<id, boards>>, Ok(0),
                            IF k \in DOMAIN data THEN [data EXCEPT ![k].boards = normalized]
                            ELSE data)

\* move_boards: the words other than the target normalized, duplicates
\* removed; no board is an error.
move_boards(id, words) ==
    /\ svc.n < MaxSvcCalls
    /\ LET data == get_data
           v == validate_ids(<<id>>, get_ids(data))
           k == to_string(id)
           boards == dedupe_boards(<<>>, [i \in 1..Len(words) |-> normalize_board_name(words[i])])
       IN  IF ~v.ok THEN ServiceError("move_boards", <<id, words>>, InvalidId(v.id))
           ELSE IF boards = <<>> THEN ServiceError("move_boards", <<id, words>>, InvalidId(0))
           ELSE ServiceSave("move_boards", <<id, words>>, Ok(0),
                            IF k \in DOMAIN data THEN [data EXCEPT ![k].boards = boards] ELSE data)

\* edit_description_silent
edit_description_silent(id, new_desc) ==
    /\ svc.n < MaxSvcCalls
    /\ LET data == get_data
           v == validate_ids(<<id>>, get_ids(data))
           k == to_string(id)
       IN  IF ~v.ok THEN ServiceError("edit_description_silent", <<id, new_desc>>, InvalidId(v.id))
           ELSE ServiceSave("edit_description_silent", <<id, new_desc>>, Ok(0),
                            IF k \in DOMAIN data THEN [data EXCEPT ![k].description = new_desc]
                            ELSE data)

\* edit_description: the words other than the target joined; an empty
\* description is an error.
edit_description(id, new_desc) ==
    /\ svc.n < MaxSvcCalls
    /\ LET data == get_data
           v == validate_ids(<<id>>, get_ids(data))
           k == to_string(id)
       IN  IF ~v.ok THEN ServiceError("edit_description", <<id, new_desc>>, InvalidId(v.id))
           ELSE IF new_desc = ""
           THEN ServiceError("edit_description", <<id, new_desc>>, InvalidId(0))
           ELSE ServiceSave("edit_description", <<id, new_desc>>, Ok(0),
                            IF k \in DOMAIN data
                            THEN [data EXCEPT ![k].description = new_desc] ELSE data)

\* rename_board_silent: in every item that has the old board, each board
\* equal to it becomes the new name normalized; saved when an item changed.
rename_board_silent(old_name, new_name) ==
    /\ svc.n < MaxSvcCalls
    /\ LET data == get_data
           normalized_new == normalize_board_name(new_name)
           hit == {k \in DOMAIN data :
                       \E i \in 1..Len(data[k].boards) : board_eq(data[k].boards[i], old_name)}
           renamed == [k \in DOMAIN data |->
                           IF k \in hit
                           THEN [data[k] EXCEPT !.boards =
                                   [i \in 1..Len(data[k].boards) |->
                                       IF board_eq(data[k].boards[i], old_name)
                                       THEN normalized_new ELSE data[k].boards[i]]]
                           ELSE data[k]]
           arg == <<old_name, new_name>>
       IN  IF hit = {} THEN ServiceError("rename_board_silent", arg, Ok(0))
           ELSE ServiceSave("rename_board_silent", arg, Ok(Cardinality(hit)), renamed)

\* The task service before its first call.
NoCall == [op |-> "none", arg |-> <<>>, res |-> Ok(0), writes |-> 0, n |-> 0]

\* ------------------------------------------------------------ specifications

Init ==
    /\ rows = {}
    /\ sessions = InitSessions
    /\ InitAuthVars
    /\ srv = Serving
    /\ put = [p \in PutIds |-> IdlePut]
    /\ nput = 0
    /\ lastGet = [status |-> 0, user |-> NoUser, archived |-> FALSE,
                  items |-> Empty, last |-> Empty]
    /\ hub = [u \in Users |-> NoChannel]
    /\ client = [c \in Clients |-> InitClient("t1")]
    /\ hist = [u \in Users |-> [a \in BOOLEAN |-> [ver |-> 0, last |-> Empty, ok |-> {}]]]
    /\ local = [disk |-> [a \in BOOLEAN |-> NoFile], written |-> [a \in BOOLEAN |-> <<>>],
                nset |-> 0, got |-> NoRead]
    /\ fs = [proc |-> [p \in Procs |-> [IdleProc EXCEPT !.pc = "down"]],
             lock |-> [a \in BOOLEAN |-> NoProc],
             temp |-> [p \in Procs |-> NoTemp],
             torn |-> [a \in BOOLEAN |-> FALSE],
             ncall |-> 0]
    /\ svc = NoCall

PutSteps ==
    \E p \in PutIds :
        \/ PutDeleteStart(p)
        \/ PutDeleteFinish(p)
        \/ \E k \in Keys : PutInsert(p, k)
        \/ PutCommit(p)
        \/ PutDbError(p)
        \/ PutNotify(p)
        \/ PutReply(p)

Body1A == [k \in {"1"} |-> WireA]
Body2B == [k \in {"2"} |-> WireB]
Body12 == [k \in {"1", "2"} |-> IF k = "1" THEN WireB ELSE WireA]
BodyBadData == [k \in {"1", "2"} |-> IF k = "1" THEN WireB ELSE WireBadData]
BodyLongNonce == [k \in {"1"} |-> WireLongNonce]

\* The requests of the database specification: one owner's clients, and a
\* request without a session.
DbBodies == {Body1A, Body2B, BodyBadData}

DbReceive ==
    /\ nput < MaxDbPuts
    /\ \E p \in PutIds, tok \in {"t1"}, a \in BOOLEAN, items \in DbBodies :
            PutReceive(p, tok, a, items)

DbGet == \E tok \in {"t1"}, a \in BOOLEAN : GetItems(tok, a)

NextDb == DbReceive \/ PutSteps \/ DbGet

SpecDb == Init /\ [][NextDb]_vars

\* Requests of one owner that arrive one after the other's reply, and GETs
\* at any moment.
SeqBodies == {Body12, Body2B, Empty}

SeqReceive ==
    /\ nput < MaxDbPuts
    /\ \A q \in PutIds : ~InFlight(q)
    /\ \E p \in PutIds, a \in BOOLEAN, items \in SeqBodies : PutReceive(p, "t1", a, items)

SeqGet == \E tok \in {"t1", "stale"}, a \in BOOLEAN : GetItems(tok, a)

NextSeq == SeqReceive \/ PutSteps \/ SeqGet

SpecSeq == Init /\ [][NextSeq]_vars

\* PUT requests in one run of the live-update specifications.
MaxSyncPuts == 3

\* The requests of the live-update specifications: both buckets of the owner
\* the clients belong to, another owner, a request without a session, a body
\* that fails validation.
SyncRequests ==
    {<<"t1", FALSE, Body1A>>, <<"t1", TRUE, Body1A>>, <<"t2", FALSE, Body1A>>,
     <<"stale", FALSE, Body1A>>, <<"t1", FALSE, BodyLongNonce>>}

\* Handlers that overlap, and a subscriber that stays connected and reloads
\* on the events it is sent.
PushReceive ==
    /\ nput < MaxSyncPuts
    /\ \E p \in PutIds, req \in SyncRequests : PutReceive(p, req[1], req[2], req[3])

PushClient ==
    \/ SseConnect("c1")
    \/ StreamNext("c1")
    \/ ClientDataChanged("c1")

NextPush == PushReceive \/ PutSteps \/ PushClient

SpecPush == Init /\ [][NextPush]_vars

\* The owner's PUTs one after the other's reply, subscribers that come and
\* go, and the frames their streams yield.
StreamRequests == {<<"t1", FALSE, Body1A>>, <<"t1", TRUE, Empty>>}

SyncReceive ==
    /\ nput < MaxSyncPuts
    /\ \A q \in PutIds : ~InFlight(q)
    /\ \E p \in PutIds, req \in StreamRequests : PutReceive(p, req[1], req[2], req[3])

SyncClient ==
    \E c \in Clients :
        \/ SseConnect(c)
        \/ StreamNext(c)
        \/ SseDisconnect(c)

NextSync == SyncReceive \/ PutSteps \/ SyncClient

SpecSync == Init /\ [][NextSync]_vars

\* SpecSync with a stream that is polled whenever its channel has something
\* for it: the runtime wakes the task of a receiver with a value to take.
FairStream == \A c \in Clients : WF_vars(StreamNext(c))

SpecLive == Init /\ [][NextSync]_vars /\ FairStream

\* One client that changes views while its owner's buckets are replaced, one
\* request after the other's reply.
ViewRequests == {<<"t1", FALSE, Body1A>>, <<"t1", TRUE, Body1A>>}

ViewReceive ==
    /\ nput < MaxSyncPuts
    /\ \A q \in PutIds : ~InFlight(q)
    /\ \E p \in PutIds, req \in ViewRequests : PutReceive(p, req[1], req[2], req[3])

ViewClient ==
    \/ SseConnect("c1")
    \/ StreamNext("c1")
    \/ ClientDataChanged("c1")
    \/ \E v \in ViewModes : ClientSetView("c1", v)

NextView == ViewReceive \/ PutSteps \/ ViewClient

SpecView == Init /\ [][NextView]_vars

\* Writes to the local backend in one run.
MaxLocalSets == 2

\* Board names: plain, with the legacy '@', with blanks around, in capitals,
\* the default board, its alias, the empty name.
LocalBoardNames ==
    {<<"c">>, <<"@", "c">>, <<" ", "c", " ">>, <<"C">>, DEFAULT_BOARD, AliasMyboard, <<>>}

\* Board lists: one name each, the default board after another, no board.
LocalBoards == {<<b>> : b \in LocalBoardNames} \cup {<<<<"c">>, DEFAULT_BOARD>>, <<>>}

\* Tasks and notes of every board list, with and without tags and body, with
\* the kind flag their constructors set and with the other one.
LocalItems ==
    {Task(1, flag, "Fix bug", TRUE, FALSE, TRUE, 2, boards, tags) :
        flag \in BOOLEAN, boards \in LocalBoards, tags \in {<<>>, <<"t">>}}
    \cup {Note(1, flag, "Idea", body, FALSE, boards, <<"t">>) :
        flag \in BOOLEAN, boards \in LocalBoards, body \in {None, Some("text")}}

\* The maps written: empty, of one item, of a task and a note.
LocalMaps ==
    {<<>>} \cup {("1" :> item) : item \in LocalItems}
        \cup {("1" :> Task(1, TRUE, "Fix bug", FALSE, TRUE, FALSE, 1, <<<<"c">>>>, <<>>))
                @@ ("2" :> Note(2, FALSE, "Idea", body, TRUE, <<DEFAULT_BOARD>>, <<>>)) :
                    body \in {None, Some("")}}

LocalWrite ==
    /\ local.nset < MaxLocalSets
    /\ \E a \in BOOLEAN, data \in LocalMaps : LocalSet(a, data)

LocalRead == \E a \in BOOLEAN : LocalGet(a)

NextLocal == LocalWrite \/ LocalRead

SpecLocal == Init /\ [][NextLocal]_vars

\* Store operations called in one run of the file specification.
MaxFsCalls == 3

\* The maps the processes write.
FsMaps ==
    {("1" :> Task(1, TRUE, "Fix bug", FALSE, TRUE, FALSE, 1, <<<<"c">>>>, <<>>)),
     ("2" :> Note(2, FALSE, "Idea", None, TRUE, <<DEFAULT_BOARD>>, <<>>))}

\* The calls of the file specification: reads and writes of both buckets.
FsCalls ==
    {<<"get", a, <<>>>> : a \in BOOLEAN} \cup {<<"set", a, data>> : a \in BOOLEAN, data \in FsMaps}

\* The steps of an operation that is past its call.
FsProgress(p) ==
    \/ FsLock(p)
    \/ FsRead(p)
    \/ FsSerialize(p)
    \/ FsWriteStart(p)
    \/ FsWriteEnd(p)
    \/ FsRename(p)
    \/ FsReturn(p)

FsEnter(p) ==
    /\ fs.ncall < MaxFsCalls
    /\ \E c \in FsCalls : FsCall(p, c[1], c[2], c[3])

\* Processes that start, call the store, fail and stop at any step.
NextFile ==
    \E p \in Procs :
        \/ FsNew(p)
        \/ FsEnter(p)
        \/ FsProgress(p)
        \/ FsFail(p)
        \/ FsStop(p)

SpecFile == Init /\ [][NextFile]_vars

\* A book after some use: a task in progress on a board, a complete starred
\* task and a note on the default board; a complete task in the archive.
BookActive ==
    ("1" :> Task(1, TRUE, "A", FALSE, FALSE, TRUE, 1, <<<<"c">>>>, <<>>))
        @@ ("2" :> Task(2, TRUE, "B", TRUE, TRUE, FALSE, 2, <<DEFAULT_BOARD>>, <<>>))
        @@ ("3" :> Note(3, FALSE, "N", None, FALSE, <<DEFAULT_BOARD>>, <<>>))

BookArchive == ("1" :> Task(1, TRUE, "Z", FALSE, TRUE, FALSE, 3, <<<<"c">>>>, <<>>))

\* A book after create "A", create "B", delete 1: key 2 alone in the active
\* bucket, key 1 alone in the archive.
GapActive == ("2" :> Task(2, TRUE, "B", FALSE, FALSE, FALSE, 1, <<DEFAULT_BOARD>>, <<>>))

GapArchive == ("1" :> Task(1, TRUE, "A", FALSE, FALSE, FALSE, 1, <<DEFAULT_BOARD>>, <<>>))

\* The books the service specification starts from.
Books == {<<BookActive, BookArchive>>, <<GapActive, GapArchive>>}

\* The state after construction, with the files of a book in the directory.
InitBook ==
    /\ rows = {}
    /\ sessions = InitSessions
    /\ InitAuthVars
    /\ srv = Serving
    /\ put = [p \in PutIds |-> IdlePut]
    /\ nput = 0
    /\ lastGet = [status |-> 0, user |-> NoUser, archived |-> FALSE,
                  items |-> Empty, last |-> Empty]
    /\ hub = [u \in Users |-> NoChannel]
    /\ client = [c \in Clients |-> InitClient("t1")]
    /\ hist = [u \in Users |-> [a \in BOOLEAN |-> [ver |-> 0, last |-> Empty, ok |-> {}]]]
    /\ fs = [proc |-> [p \in Procs |-> [IdleProc EXCEPT !.pc = "down"]],
             lock |-> [a \in BOOLEAN |-> NoProc],
             temp |-> [p \in Procs |-> NoTemp],
             torn |-> [a \in BOOLEAN |-> FALSE],
             ncall |-> 0]
    /\ svc = NoCall
    /\ \E b \in Books :
            local = [disk |-> [a \in BOOLEAN |->
                                 write_json_file(IF a THEN b[2] ELSE b[1])],
                     written |-> [a \in BOOLEAN |-> IF a THEN b[2] ELSE b[1]],
                     nset |-> 0, got |-> NoRead]

\* The id lists of the calls: one id, two, an id twice, an id that is in
\* neither bucket after one that is, two such ids, no id.
IdLists == {<<1>>, <<3>>, <<1, 2>>, <<2, 1, 2>>, <<1, 1>>, <<1, 7>>, <<8, 7>>, <<>>}

\* Board lists of the direct calls: a board, the default board as the
\* terminal interface spells it, no board.
DirectBoards == {<<<<"c">>>>, <<<<"m", "y", " ", "b", "o", "a", "r", "d">>>>, <<>>}

\* The `@` words of a command line: none, a board, a board twice.
BoardWords == {<<>>, <<<<"@", "d">>>>, <<<<"@", "d">>, <<"@", "D">>>>}

ListCalls ==
    \E ids \in IdLists :
        \/ check_tasks(ids)
        \/ begin_tasks(ids)
        \/ star_items(ids)
        \/ delete_items(ids)
        \/ restore_items(ids)

CreateCalls ==
    \/ \E boards \in DirectBoards, d \in {"T", ""}, p \in {0, 2, 200} :
            create_task_direct(boards, d, p)
    \/ \E boards \in DirectBoards, d \in {"M", ""} : create_note_direct(boards, d)
    \/ \E words \in BoardWords, p \in {1, 3} : create_task(words, "T", p)

ItemCalls ==
    \E id \in {1, 3, 7} :
        \/ \E p \in {0, 2, 4} : update_priority_silent(id, p)
        \/ \E w \in {"3", "4", "x"} : update_priority(id, w)
        \/ \E boards \in DirectBoards : move_boards_silent(id, boards)
        \/ \E words \in BoardWords : move_boards(id, words)
        \/ \E d \in {"E", ""} : edit_description_silent(id, d)
        \/ \E d \in {"F", ""} : edit_description(id, d)

BoardCalls ==
    \E old \in {<<"C">>, <<"x">>}, new \in {<<"@", "d">>} : rename_board_silent(old, new)

\* Calls of the service one after the other, through both of its entry
\* points.
NextBook == ListCalls \/ CreateCalls \/ ItemCalls \/ BoardCalls \/ clear

SpecBook == InitBook /\ [][NextBook]_vars

\* ------------------------------------------------- claims: bucket replacement

\* The handlers working on bucket (u, a).
InFlightOn(u, a) ==
    {p \in PutIds : InFlight(p) /\ put[p].user = u /\ put[p].archived = a}

\* C1: a successful PUT replaces its bucket entirely: with the PUTs of a
\* bucket handled one after the other, a GET returns exactly the keys and
\* payloads of the body of the PUT that committed last on the bucket (the
\* empty bucket when none has), whatever the bucket held before.
C1_GetReturnsLastPutBody ==
    lastGet.status = 200 => lastGet.items = lastGet.last

\* C1 witness: keys 1 and 2 were PUT, then a PUT of key 2 alone; the GET
\* returns key 2 alone, with the second PUT's payload.
C1_Witness ==
    /\ lastGet.status = 200 /\ lastGet.items = Body2B
    /\ hist[lastGet.user][lastGet.archived].ok = {Body12, Body2B}

\* C2: a PUT that fails after its transaction has begun leaves the committed
\* rows as they were: what a GET returns changes only in the commit of a PUT,
\* never in a step of a PUT that ends in an error, and such a PUT has
\* committed nothing.
C2_FailedPutLeavesBucket ==
    [][/\ \A u \in Users, a \in BOOLEAN :
            Bucket(u, a)' # Bucket(u, a) =>
                \E p \in PutIds :
                    /\ put[p].pc = "inserting" /\ put'[p].pc = "committed"
                    /\ put[p].user = u /\ put[p].archived = a
       /\ \A p \in PutIds :
            (InTx(p) /\ put'[p].pc = "done") =>
                /\ put'[p].status \in {400, 500}
                /\ put'[p].cver = 0
                /\ rows' = rows
                /\ put'[p].del = {} /\ put'[p].ins = {}
      ]_vars

\* C2 witness: a PUT of a non-empty bucket has deleted the old row and
\* inserted one new row in its transaction, then failed on the next item;
\* the bucket still holds the earlier PUT's content.
C2_Witness ==
    \E p \in PutIds :
        /\ put[p].pc = "done" /\ put[p].status = 400
        /\ put[p].ndel = 1 /\ put[p].nins = 1
        /\ Bucket(put[p].user, put[p].archived) = Body1A

\* C3: concurrent PUTs of one bucket are serialized: once the PUTs of a
\* bucket have been answered, the bucket holds exactly the payload of one of
\* those answered 200, never a mixture.
C3_ConcurrentPutsSerialized ==
    \A u \in Users, a \in BOOLEAN :
        (InFlightOn(u, a) = {} /\ hist[u][a].ok # {}) =>
            Bucket(u, a) \in hist[u][a].ok

\* ------------------------------------------------------ claims: live updates

\* The events a user's channel retains, and those the clients hold unhandled.
RingEvents(u) == {hub[u].buf[i] : i \in 1..Len(hub[u].buf)}

InboxEvents(c) == {client[c].inbox[i] : i \in 1..Len(client[c].inbox)}

\* C4: commit, then DataChanged, then 200. Every DataChanged in a channel or
\* in a client's hands names a commit its bucket has already had, so a GET
\* issued on receiving it reads the bucket at that commit or a later one; a
\* PUT answered 200 has committed and has notified.
C4_CommitThenNotifyThenReply ==
    /\ \A u \in Users : \A ev \in RingEvents(u) :
            ev.cver >= 1 /\ hist[ev.user][ev.archived].ver >= ev.cver
    /\ \A c \in Clients : \A ev \in InboxEvents(c) :
            ~ev.lag => /\ ev.cver >= 1
                       /\ hist[AuthUser(client[c].token)][ev.archived].ver >= ev.cver
    /\ \A p \in PutIds :
            /\ put[p].notified >= 1 => put[p].cver >= 1
            /\ put[p].status = 200 => put[p].notified = 1 /\ put[p].cver >= 1

\* C4 witness: a subscriber has reloaded on the DataChanged of a PUT that
\* has since been answered 200, and holds that PUT's item.
C4_Witness ==
    \E c \in Clients, p \in PutIds :
        /\ put[p].status = 200 /\ put[p].user = AuthUser(client[c].token)
        /\ ~put[p].archived
        /\ client[c].inbox = <<>> /\ client[c].next = 1
        /\ client[c].items = decrypt_items(put[p].body)
        /\ client[c].items # Empty

\* C9: DataChanged follows a successful replacement only. A PUT that ended
\* in 401, 400 or 500 has emitted nothing; a PUT answered 200 has emitted
\* once; the events of a user's channel are never more than the commits of
\* that user's buckets, each is of that user, no two are the same commit, and
\* each carries the bucket of its commit.
C9_EventOnlyAfterReplacement ==
    /\ \A p \in PutIds :
            /\ put[p].notified <= 1
            /\ put[p].pc = "done" => (put[p].notified = 1 <=> put[p].status = 200)
            /\ put[p].status \in {400, 401, 500} => put[p].notified = 0
    /\ \A u \in Users :
            /\ hub[u].tail <= hist[u][FALSE].ver + hist[u][TRUE].ver
            /\ \A ev \in RingEvents(u) :
                    ev.user = u /\ ev.cver \in 1..hist[u][ev.archived].ver
            /\ \A i, j \in 1..Len(hub[u].buf) :
                    i # j => hub[u].buf[i] # hub[u].buf[j]

\* C9 witness: a PUT /items/archive answered 200 next to a PUT that failed
\* in its transaction; the channel holds the one event, flagged archived.
C9_Witness ==
    \E p, q \in PutIds :
        /\ put[p].pc = "done" /\ put[p].status = 200 /\ put[p].archived
        /\ put[q].pc = "done" /\ put[q].status = 500 /\ put[q].user = put[p].user
        /\ hub[put[p].user].tail = 1
        /\ hub[put[p].user].buf = <<DataChanged(TRUE, put[p].user, 1)>>

\* The user a client is logged in as.
ClientUser(c) == AuthUser(client[c].token)

\* The subscription of c is live before and after the step.
StaysUp(c) == client[c].sse = "up" /\ client'[c].sse = "up"

\* The client's event for the channel's value at position pos.
ValueEvent(ch, pos) ==
    ClientEvent(FrameData("value", SlotAt(ch, pos)), SlotAt(ch, pos).cver, FALSE)

\* The client's event for the frame sent on a Lagged.
LagEvent == ClientEvent("items", 0, TRUE)

\* C6 as stated: a live receiver is delivered every event notified after it
\* subscribed: each receive finds the value at the receiver's position still
\* in the channel, yields it and moves one position on.
C6_EveryEventDelivered ==
    [][\A c \in Clients :
            (StaysUp(c) /\ client'[c].next # client[c].next) =>
                /\ RecvKind(hub[ClientUser(c)], client[c].next) = "value"
                /\ client'[c].next = client[c].next + 1
                /\ client'[c].inbox =
                        Append(client[c].inbox, ValueEvent(hub[ClientUser(c)], client[c].next))
      ]_vars

\* C6 amended: subscribe places the receiver at the channel's tail, so no
\* event notified before is delivered; an event notified while a receiver is
\* live is stored for it; each receive yields the value at the receiver's own
\* position, in order, without moving any other receiver -- unless the
\* receiver is more than ChannelCapacity behind, when the oldest events are
\* dropped and one lag frame is delivered in their place.
C6_DeliveredOrLagged ==
    [][\A c \in Clients :
        LET u == ClientUser(c)
            ch == hub[u]
        IN  /\ client'[c].sse = "up" =>
                    /\ client'[c].since <= client'[c].next
                    /\ client'[c].next <= hub'[u].tail
            /\ (client[c].sse = "down" /\ client'[c].sse = "up") =>
                    /\ client'[c].next = hub'[u].tail
                    /\ client'[c].inbox = client[c].inbox
            /\ (StaysUp(c) /\ hub'[u].tail # ch.tail) =>
                    /\ hub'[u].tail = ch.tail + 1
                    /\ client'[c].next = client[c].next
                    /\ hub'[u].tail - client'[c].next <= ChannelCapacity =>
                            \A pos \in client[c].next .. (ch.tail - 1) :
                                SlotAt(hub'[u], pos) = SlotAt(ch, pos)
            /\ (StaysUp(c) /\ client'[c].next # client[c].next) =>
                    /\ hub' = hub
                    /\ \A d \in Clients \ {c} : client'[d] = client[d]
                    /\ \/ /\ ch.tail - client[c].next <= ChannelCapacity
                          /\ client'[c].next = client[c].next + 1
                          /\ client'[c].inbox =
                                Append(client[c].inbox, ValueEvent(ch, client[c].next))
                       \/ /\ ch.tail - client[c].next > ChannelCapacity
                          /\ client'[c].next > client[c].next
                          /\ client'[c].inbox = Append(client[c].inbox, LagEvent)
      ]_vars

\* C6 witness: one client subscribed before the first event and another after
\* it; both have been delivered the second event.
C6_Witness ==
    \E c, d \in Clients :
        /\ client[c].sse = "up" /\ client[d].sse = "up"
        /\ client[c].since = 0 /\ client[d].since = 1
        /\ client[c].next = 2 /\ client[d].next = 2
        /\ hub[ClientUser(c)].tail = 2
        /\ Len(client[c].inbox) = 2 /\ Len(client[d].inbox) = 1

\* C7: notify never blocks and never fails: a handler that has committed can
\* always notify, whatever the channel holds and whoever listens; the event
\* is stored for every live receiver that keeps up. A receiver more than
\* ChannelCapacity behind gets, on its next receive, one frame with data
\* "items" and goes on at the oldest value the channel retains.
C7_NotifyNeverBlocks ==
    /\ [](\A p \in PutIds : put[p].pc = "committed" => ENABLED PutNotify(p))
    /\ [][/\ \A p \in PutIds :
                (put[p].pc = "committed" /\ put'[p].pc = "notified") =>
                    LET u == put[p].user
                    IN  hub[u].open /\ hub[u].rx > 0 =>
                            /\ hub'[u].tail = hub[u].tail + 1
                            /\ SlotAt(hub'[u], hub[u].tail) =
                                    DataChanged(put[p].archived, u, put[p].cver)
                            /\ \A c \in Clients :
                                    (client[c].sse = "up" /\ ClientUser(c) = u
                                        /\ hub[u].tail - client[c].next < ChannelCapacity) =>
                                            RecvKind(hub'[u], client'[c].next) = "value"
          /\ \A c \in Clients :
                LET ch == hub[ClientUser(c)]
                IN  (StaysUp(c) /\ client'[c].next # client[c].next
                        /\ ch.tail - client[c].next > ChannelCapacity) =>
                            /\ client'[c].inbox = Append(client[c].inbox, LagEvent)
                            /\ ~LagEvent.archived
                            /\ client'[c].next = ch.tail - ChannelCapacity
                            /\ SlotAt(ch, client'[c].next) = ch.buf[1]
                            /\ RecvKind(ch, client'[c].next) = "value"
         ]_vars

\* C7 witness: one receiver has fallen more than ChannelCapacity behind and
\* holds the lag frame, placed at the oldest retained value; the other has
\* received every event.
C7_Witness ==
    \E c, d \in Clients :
        LET ch == hub[ClientUser(c)]
        IN  /\ client[c].sse = "up" /\ client[d].sse = "up"
            /\ ch.tail = ChannelCapacity + 1
            /\ client[c].inbox = <<LagEvent>>
            /\ client[c].next = ch.tail - ChannelCapacity
            /\ client[d].next = ch.tail

\* The client's cache is the server's current content of the bucket its view
\* shows.
CacheCurrent(c) ==
    client[c].items = RemoteGet(ClientUser(c), ViewArchived(client[c].view))

\* C8: lag is a recovery path: when the client has handled the frame of a
\* lag, the items it caches are the server's current content of the bucket
\* its view shows, in every view.
C8_LagFrameRefreshesView ==
    [][\A c \in Clients :
            (/\ client[c].inbox # <<>>
             /\ Head(client[c].inbox).lag
             /\ client'[c].inbox = Tail(client[c].inbox)) =>
                CacheCurrent(c)'
      ]_vars

\* Positions of a channel that the PUTs of a run can fill.
Positions == 0..(MaxSyncPuts - 1)

\* C5: an event notified on the channel of a live subscription is followed
\* by a frame on that subscription: the receiver gets past the event's
\* position, by the data_changed frame of the event or by the frame of a lag,
\* unless the subscription ends first.
C5_LiveSubscriptionsAreTold ==
    \A c \in Clients, pos \in Positions :
        (client[c].sse = "up" /\ client[c].next <= pos /\ pos < hub[ClientUser(c)].tail)
            ~> (client[c].sse = "down" \/ client[c].next > pos)

\* C5 witness: a subscription that was live through every PUT of the run has
\* been delivered a frame for each.
C5_Witness ==
    \E c \in Clients :
        /\ client[c].sse = "up" /\ client[c].since = 0
        /\ hub[ClientUser(c)].tail = MaxSyncPuts
        /\ client[c].next = MaxSyncPuts
        /\ Len(client[c].inbox) = MaxSyncPuts
        /\ \E p \in PutIds : put[p].pc = "done" /\ put[p].status = 200

\* ------------------------------------------------------ claims: local backend

\* C10 as stated: a read that follows a write of the same bucket returns the
\* map written, every item equal field for field, board names as written.
C10_ReadReturnsWritten ==
    local.got.valid => local.got.ok /\ local.got.items = local.got.of

\* The kind flag of every item is the one of its variant, and every board
\* name is in the form normalize_board_name gives it.
Canonical(data) ==
    \A k \in DOMAIN data :
        /\ data[k].is_task_flag = (data[k].variant = "Task")
        /\ \A i \in 1..Len(data[k].boards) :
                normalize_board_name(data[k].boards[i]) = data[k].boards[i]

\* C10 amended: the read returns the map written when every item's kind flag
\* agrees with its variant and every board name is already normalized.
C10_ReadReturnsCanonicalWritten ==
    (local.got.valid /\ Canonical(local.got.of)) =>
        local.got.ok /\ local.got.items = local.got.of

\* C10 witness: a task and a note with an empty body, on a plain board and
\* on the default board, written to the archive and read back.
C10_Witness ==
    /\ local.got.valid /\ local.got.archived /\ local.got.ok
    /\ Canonical(local.got.of)
    /\ DOMAIN local.got.of = {"1", "2"}
    /\ local.got.of["2"].body = Some("")
    /\ local.got.items = local.got.of

\* ------------------------------------------------ claims: local file store

\* C11: a local write is an atomic replace: a bucket file changes only in
\* the rename of a write, and then to the complete new content; a write that
\* fails or a process that stops at any step leaves the bucket file with the
\* complete content it had; no bucket file is ever cut short, and every read
\* returns the complete map last put in place (the empty map before any).
C11_WriteIsAtomicReplace ==
    /\ [](\A a \in BOOLEAN : ~fs.torn[a])
    /\ [](\A p \in Procs :
            fs.proc[p].res.valid =>
                /\ fs.proc[p].res.ok /\ ~fs.proc[p].res.torn
                /\ \E a \in BOOLEAN, data \in FsMaps \cup {<<>>} :
                        fs.proc[p].res.items = data)
    /\ [][/\ \A a \in BOOLEAN :
                local.disk[a]' # local.disk[a] =>
                    \E p \in Procs :
                        /\ fs.proc[p].pc = "written" /\ fs.proc[p].archived = a
                        /\ fs.proc[p].op = "set"
                        /\ fs'.proc[p].pc = "renamed"
                        /\ local.disk[a]' = write_json_file(fs.proc[p].data)
          /\ \A p \in Procs :
                fs'.proc[p].pc = "read" /\ fs.proc[p].pc # "read" =>
                    fs'.proc[p].res.items = local.written[fs.proc[p].archived]
          /\ \A p \in Procs :
                (fs'.proc[p].pc \in {"idle", "down"} /\ fs.proc[p].pc \notin {"renamed", "idle", "down"})
                    => local.disk' = local.disk]_vars

\* C11 witness: a process stopped after it wrote its temporary file and
\* before the rename; the bucket file holds the map of the write before, and
\* a read of another process has returned that map.
C11_Witness ==
    \E p, q \in Procs, a \in BOOLEAN :
        /\ fs.proc[p].pc = "down" /\ fs.temp[p].exists /\ fs.temp[p].archived = a
        /\ fs.temp[p].whole
        /\ local.disk[a].exists /\ fs.temp[p].file # local.disk[a]
        /\ fs.proc[q].res.valid /\ fs.proc[q].pc = "idle"
        /\ fs.proc[q].res.items = local.written[a]
        /\ fs.proc[q].res.items # <<>>

\* C12: a process inside a read or a write of a bucket holds that bucket's
\* lock, so no two processes are inside operations on the same bucket; a
\* lock is held only inside an operation on its bucket, so no process holds
\* both locks; a process waits only for the lock of its own bucket, whoever
\* holds the other; and whenever a process waits for a lock, some operation
\* can take a step.
C12_BucketLockExcludes ==
    /\ \A p \in Procs : Inside(p) => fs.lock[fs.proc[p].archived] = p
    /\ \A p, q \in Procs :
            (Inside(p) /\ Inside(q) /\ fs.proc[p].archived = fs.proc[q].archived) => p = q
    /\ \A a \in BOOLEAN :
            fs.lock[a] # NoProc => (Inside(fs.lock[a]) /\ fs.proc[fs.lock[a]].archived = a)
    /\ \A p \in Procs : Cardinality({a \in BOOLEAN : fs.lock[a] = p}) <= 1
    /\ \A p \in Procs :
            (fs.proc[p].pc = "lock" /\ fs.lock[fs.proc[p].archived] = NoProc)
                => ENABLED FsLock(p)
    /\ (\E p \in Procs : fs.proc[p].pc = "lock") => \E q \in Procs : ENABLED FsProgress(q)

\* C12 witness: a process is inside a write of the active bucket while the
\* other waits for the lock of the same bucket.
C12_Witness ==
    \E p, q \in Procs :
        /\ fs.proc[p].pc = "temp" /\ ~fs.proc[p].archived
        /\ fs.proc[q].pc = "lock" /\ ~fs.proc[q].archived
        /\ fs.lock[FALSE] = p

\* ---------------------------------------------------- claims: task service

\* Bucket a as the store returns it. In the formulas of the steps, Data and
\* Arch are the buckets before the step, DataNow and ArchNow after it.
BucketItems(a) == IF a THEN get_archive ELSE get_data

\* The ids of a list.
IdSet(ids) == {ids[i] : i \in 1..Len(ids)}

\* The entries of bucket map d2 that are not in d.
NewKeys(d, d2) == DOMAIN d2 \ DOMAIN d

\* Entry e is item with its id field set anew.
MovedCopy(e, item) == e = [item EXCEPT !.id = e.id]

\* C13: no task of either bucket is complete and in progress at once, after
\* any sequence of service operations; a check that succeeds sets complete
\* to its negation and inProgress to false on each task it names, a begin
\* sets inProgress to its negation and complete to false.
C13_NeverCompleteAndInProgress ==
    /\ [](\A a \in BOOLEAN : \A k \in DOMAIN BucketItems(a) :
            BucketItems(a)[k].variant = "Task" =>
                ~(BucketItems(a)[k].is_complete /\ BucketItems(a)[k].in_progress))
    /\ [][LET Data == get_data
           Arch == get_archive
           DataNow == read_json_file(local'.disk[FALSE]).items
           ArchNow == read_json_file(local'.disk[TRUE]).items
           Was(a) == IF a THEN Arch ELSE Data
       IN  (svc'.op \in {"check", "begin"} /\ svc'.res.ok) =>
                \A id \in IdSet(svc'.arg) :
                    LET k == to_string(id)
                    IN  Data[k].variant = "Task" =>
                            IF svc'.op = "check"
                            THEN /\ DataNow[k].is_complete = ~Data[k].is_complete
                                 /\ ~DataNow[k].in_progress
                            ELSE /\ DataNow[k].in_progress = ~Data[k].in_progress
                                 /\ ~DataNow[k].is_complete]_vars

\* C13 witness: the task in progress has been checked: it is complete and
\* no longer in progress.
C13_Witness ==
    /\ svc.op = "check" /\ svc.arg = <<1>> /\ svc.res.ok /\ svc.n = 1
    /\ DOMAIN get_data = {"1", "2", "3"}
    /\ get_data["1"].is_complete /\ ~get_data["1"].in_progress

\* C14: a delete of one id that succeeds removes that key from the active
\* bucket and adds one entry to the archive, under a key the archive did
\* not have, equal to the deleted item in every field but the id, which is
\* the new key; every other entry of both buckets is as before.
C14_DeleteMovesToArchive ==
    [][LET Data == get_data
           Arch == get_archive
           DataNow == read_json_file(local'.disk[FALSE]).items
           ArchNow == read_json_file(local'.disk[TRUE]).items
           Was(a) == IF a THEN Arch ELSE Data
       IN  (svc'.op = "delete" /\ svc'.res.ok /\ Len(svc'.arg) = 1) =>
            LET k == to_string(svc'.arg[1])
                new == NewKeys(Arch, ArchNow)
            IN  /\ k \in DOMAIN Data
                /\ DOMAIN DataNow = DOMAIN Data \ {k}
                /\ \A x \in DOMAIN DataNow : DataNow[x] = Data[x]
                /\ DOMAIN Arch \subseteq DOMAIN ArchNow
                /\ \A x \in DOMAIN Arch : ArchNow[x] = Arch[x]
                /\ Cardinality(new) = 1
                /\ \A nk \in new :
                    /\ MovedCopy(ArchNow[nk], Data[k])
                    /\ parse_u64(nk) = Some(ArchNow[nk].id)]_vars

\* C14 witness: the note of key 3 has been deleted: it is in the archive
\* under key 2, next to the entry the archive had.
C14_Witness ==
    /\ svc.op = "delete" /\ svc.arg = <<3>> /\ svc.res.ok /\ svc.n = 1
    /\ DOMAIN get_data = {"1", "2"}
    /\ DOMAIN get_archive = {"1", "2"}
    /\ get_archive["2"].description = "N" /\ get_archive["2"].id = 2
    /\ get_archive["1"].description = "Z"

\* C15: a delete, restore or clear that moves m items leaves every entry of
\* the destination bucket as it was and adds m entries, under the keys
\* max+1 .. max+m, max being the largest numeric key the destination had
\* (0 for none).
C15_MoveAllocatesFreshKeys ==
    [][LET Data == get_data
           Arch == get_archive
           DataNow == read_json_file(local'.disk[FALSE]).items
           ArchNow == read_json_file(local'.disk[TRUE]).items
           Was(a) == IF a THEN Arch ELSE Data
       IN  (svc'.op \in {"delete", "restore", "clear"} /\ svc'.res.ok /\ svc'.writes > 0) =>
            LET to_archive == svc'.op # "restore"
                dst == Was(to_archive)
                dst2 == IF to_archive THEN ArchNow ELSE DataNow
                src == Was(~to_archive)
                src2 == IF to_archive THEN DataNow ELSE ArchNow
                moved == DOMAIN src \ DOMAIN src2
                max == SetMax(get_ids(dst) \cup {0})
            IN  /\ DOMAIN dst \subseteq DOMAIN dst2
                /\ \A x \in DOMAIN dst : dst2[x] = dst[x]
                /\ moved # {}
                /\ NewKeys(dst, dst2) = {to_string(max + i) : i \in 1..Cardinality(moved)}
                /\ \A k \in moved :
                    \E nk \in NewKeys(dst, dst2) : MovedCopy(dst2[nk], src[k])]_vars

\* C15 witness: active {2}, archive {1}: restore([1]) has given active
\* {2, 3}, task "A" under key 3, and an empty archive.
C15_Witness ==
    /\ svc.op = "restore" /\ svc.arg = <<1>> /\ svc.res.ok /\ svc.n = 1
    /\ DOMAIN get_data = {"2", "3"}
    /\ get_data["3"].description = "A" /\ get_data["3"].id = 3
    /\ get_data["2"].description = "B"
    /\ DOMAIN get_archive = {}

\* C16: clear succeeds; the active bucket keeps exactly its entries that
\* are not complete tasks, unchanged; each complete task is in the archive
\* as a new entry; the archive's entries are as before; the count returned
\* is the number of complete tasks, which is the number of new entries.
C16_ClearMovesCompleteTasks ==
    [][LET Data == get_data
           Arch == get_archive
           DataNow == read_json_file(local'.disk[FALSE]).items
           ArchNow == read_json_file(local'.disk[TRUE]).items
           Was(a) == IF a THEN Arch ELSE Data
       IN  svc'.op = "clear" =>
            LET done == {k \in DOMAIN Data :
                            Data[k].variant = "Task" /\ Data[k].is_complete}
                new == NewKeys(Arch, ArchNow)
            IN  /\ svc'.res.ok /\ svc'.res.value = Cardinality(done)
                /\ DOMAIN DataNow = DOMAIN Data \ done
                /\ \A x \in DOMAIN DataNow : DataNow[x] = Data[x]
                /\ \A k \in done : \E nk \in new : MovedCopy(ArchNow[nk], Data[k])
                /\ Cardinality(new) = Cardinality(done)
                /\ \A x \in DOMAIN Arch :
                        x \in DOMAIN ArchNow /\ ArchNow[x] = Arch[x]]_vars

\* C16 witness: clear has moved the one complete task; the task in progress
\* and the note are still in the active bucket.
C16_Witness ==
    /\ svc.op = "clear" /\ svc.res.ok /\ svc.res.value = 1 /\ svc.n = 1
    /\ DOMAIN get_data = {"1", "3"}
    /\ get_data["1"].in_progress /\ get_data["3"].variant = "Note"
    /\ DOMAIN get_archive = {"1", "2"} /\ get_archive["2"].description = "B"

\* C17: a check, begin, star, delete or restore whose list has an id that
\* is not a key of the target bucket returns the error InvalidId of the
\* first such id of the list, issues no store write, and leaves both bucket
\* files as they were.
C17_MissingIdAbortsAll ==
    [][LET Data == get_data
           Arch == get_archive
           DataNow == read_json_file(local'.disk[FALSE]).items
           ArchNow == read_json_file(local'.disk[TRUE]).items
           Was(a) == IF a THEN Arch ELSE Data
       IN  svc'.op \in {"check", "begin", "star", "delete", "restore"} =>
            LET target == Was(svc'.op = "restore")
                missing == {i \in 1..Len(svc'.arg) : to_string(svc'.arg[i]) \notin DOMAIN target}
            IN  missing # {} =>
                    /\ ~svc'.res.ok
                    /\ svc'.res.id = svc'.arg[CHOOSE i \in missing : \A j \in missing : i <= j]
                    /\ svc'.writes = 0
                    /\ local' = local]_vars

\* C17 witness: delete([1, 7]) with key 1 present and key 7 absent has
\* returned InvalidId(7), and key 1 is still in the active bucket.
C17_Witness ==
    /\ svc.op = "delete" /\ svc.arg = <<1, 7>> /\ ~svc.res.ok /\ svc.res.id = 7
    /\ svc.writes = 0 /\ svc.n = 1
    /\ DOMAIN get_data = {"1", "2", "3"} /\ DOMAIN get_archive = {"1"}

\* The first place of id in the list.
FirstIndex(ids, id) == CHOOSE i \in 1..Len(ids) : ids[i] = id /\ \A j \in 1..(i - 1) : ids[j] # id

\* C18: an id that occurs several times in the list is processed once: a
\* check that succeeds negates complete once on each task named, a star
\* negates starred once, a delete adds one archive entry for each distinct
\* id, and the archive keys follow the order of first occurrence.
C18_DuplicateIdsOnce ==
    [][LET Data == get_data
           Arch == get_archive
           DataNow == read_json_file(local'.disk[FALSE]).items
           ArchNow == read_json_file(local'.disk[TRUE]).items
           Was(a) == IF a THEN Arch ELSE Data
       IN  (svc'.op \in {"check", "star", "delete"} /\ svc'.res.ok) =>
            LET ids == IdSet(svc'.arg)
                new == NewKeys(Arch, ArchNow)
            IN  CASE svc'.op = "check" ->
                        \A id \in ids :
                            Data[to_string(id)].variant = "Task" =>
                                DataNow[to_string(id)].is_complete
                                    = ~Data[to_string(id)].is_complete
                  [] svc'.op = "star" ->
                        \A id \in ids :
                            DataNow[to_string(id)].is_starred = ~Data[to_string(id)].is_starred
                  [] svc'.op = "delete" ->
                        /\ Cardinality(new) = Cardinality(ids)
                        /\ \A x, y \in ids : \A nx, ny \in new :
                            (/\ FirstIndex(svc'.arg, x) < FirstIndex(svc'.arg, y)
                             /\ MovedCopy(ArchNow[nx], Data[to_string(x)])
                             /\ MovedCopy(ArchNow[ny], Data[to_string(y)]))
                                => parse_u64(nx)[1] < parse_u64(ny)[1]]_vars

\* C18 witness: check([1, 1]) on a task that was not complete has left it
\* complete.
C18_Witness ==
    /\ svc.op = "check" /\ svc.arg = <<1, 1>> /\ svc.res.ok /\ svc.n = 1
    /\ get_data["1"].is_complete /\ get_data["1"].description = "A"

\* C19: every task of either bucket has a priority of 1, 2 or 3 after any
\* sequence of service operations, through the command line and through the
\* silent entry points.
C19_PriorityInRange ==
    \A a \in BOOLEAN : \A k \in DOMAIN BucketItems(a) :
        BucketItems(a)[k].variant = "Task" => BucketItems(a)[k].priority \in {1, 2, 3}

\* C20: every item of either bucket has at least one board after any
\* sequence of service operations that succeed.
C20_BoardsNeverEmpty ==
    \A a \in BOOLEAN : \A k \in DOMAIN BucketItems(a) : Len(BucketItems(a)[k].boards) >= 1

\* C21: no item of either bucket has an empty description after any
\* sequence of service operations: an edit to the empty string is rejected
\* through the command line and through the silent entry point, and no
\* create stores an empty description.
C21_DescriptionNeverEmpty ==
    \A a \in BOOLEAN : \A k \in DOMAIN BucketItems(a) : BucketItems(a)[k].description # ""

\* ------------------------------------------------ the routes behind a token

\* The requests answered, and the calls the rate limiter admits, in one run.
MaxRequests == 3
MaxChecks == 12

\* ServerError::into_response: the status and the message of each error.
IntoResponse(e) ==
    CASE e = "Database" -> [status |-> 500, body |-> "database error"]
      [] e = "Unauthorized" -> [status |-> 401, body |-> "authentication required"]
      [] e = "InvalidCredentials" -> [status |-> 401, body |-> "invalid credentials"]
      [] e = "UserAlreadyExists" -> [status |-> 409, body |-> "user already exists"]
      [] e = "Internal" -> [status |-> 500, body |-> "internal server error"]
      [] e = "RateLimited" ->
            [status |-> 429, body |-> "too many requests, try again later"]
      [] OTHER -> [status |-> 400, body |-> e]

\* RequestBodyLimitLayer::new(10 * 1024 * 1024): a request that declares a
\* longer body is answered 413 by the layer, before any extractor runs.
BodyLimit == 10 * 1024 * 1024
PayloadTooLarge(len) == len > BodyLimit

\* The Authorization header as its scheme prefix and the rest.
NoToken == "none"
Header(prefix, rest) == <<prefix, rest>>

\* extract_bearer_token: the rest of the header after "Bearer ".
extract_bearer_token(h) ==
    IF h = NoHeader THEN NoToken
    ELSE IF h[1] = "Bearer " THEN h[2] ELSE NoToken

\* AuthUser::from_request_parts: the token of the header, then the lookup of
\* its unexpired session; dbok is whether the lookup's query runs.
from_request_parts(h, dbok) ==
    LET tok == extract_bearer_token(h)
    IN  IF tok = NoToken THEN [ok |-> FALSE, err |-> "Unauthorized", db |-> 0]
        ELSE IF ~dbok THEN [ok |-> FALSE, err |-> "Database", db |-> 1]
        ELSE IF AuthUser(tok) = NoUser
        THEN [ok |-> FALSE, err |-> "Unauthorized", db |-> 1]
        ELSE [ok |-> TRUE, user_id |-> AuthUser(tok), db |-> 1]

\* The reply of a route, and what the request carried.
Reply(route, h, len, status, body, db) ==
    [n |-> reply.n + 1, route |-> route, header |-> h, len |-> len,
     status |-> status, body |-> body, db |-> db]

\* The request passes the body limit and the extractor.
Admitted(h, len, dbok) == ~PayloadTooLarge(len) /\ from_request_parts(h, dbok).ok

AuthRoutes == {"logout", "me", "items", "archive", "put_items", "put_archive", "events"}

\* A request to a route behind AuthUser that the body limit or the extractor
\* turns away: the handler does not run.
Rejected(route, h, len, dbok) ==
    /\ reply.n < MaxRequests
    /\ ~Admitted(h, len, dbok)
    /\ reply' = IF PayloadTooLarge(len)
                THEN Reply(route, h, len, 413, "length limit exceeded", 0)
                ELSE LET r == from_request_parts(h, dbok)
                     IN  Reply(route, h, len, IntoResponse(r.err).status,
                               IntoResponse(r.err).body, r.db)
    /\ UNCHANGED <<users, auth_rate_limiter, now, authHist>>
    /\ UNCHANGED <<srv, fs, svc, local, rows, sessions, put, nput, lastGet, hub, client, hist>>

\* logout with a DELETE of the session of the request's token only.
logout_this_token(h, len) ==
    /\ reply.n < MaxRequests
    /\ Admitted(h, len, TRUE)
    /\ sessions' = [t \in DOMAIN sessions \ {extract_bearer_token(h)} |-> sessions[t]]
    /\ reply' = Reply("logout", h, len, 200, "", 2)
    /\ UNCHANGED <<users, auth_rate_limiter, now, authHist>>
    /\ UNCHANGED <<srv, fs, svc, local, rows, put, nput, lastGet, hub, client, hist>>

\* DELETE /logout: every session of the user is deleted.
logout(h, len) ==
    /\ reply.n < MaxRequests
    /\ Admitted(h, len, TRUE)
    /\ LET u == from_request_parts(h, TRUE).user_id
       IN  sessions' = [t \in {x \in DOMAIN sessions : sessions[x].user_id # u}
                           |-> sessions[t]]
    /\ reply' = Reply("logout", h, len, 200, "", 2)
    /\ UNCHANGED <<users, auth_rate_limiter, now, authHist>>
    /\ UNCHANGED <<srv, fs, svc, local, rows, put, nput, lastGet, hub, client, hist>>

\* GET /me: the username and the email of the token's user.
me(h, len) ==
    /\ reply.n < MaxRequests
    /\ Admitted(h, len, TRUE)
    /\ LET u == from_request_parts(h, TRUE).user_id
           row == CHOOSE r \in users : r.id = u
       IN  reply' = Reply("me", h, len, 200, <<row.username, row.email>>, 2)
    /\ UNCHANGED <<users, auth_rate_limiter, now, authHist>>
    /\ UNCHANGED <<srv, fs, svc, local, rows, sessions, put, nput, lastGet, hub, client, hist>>

\* GET /events: the handler subscribes to the user's channel.
events(h, len) ==
    /\ reply.n < MaxRequests
    /\ Admitted(h, len, TRUE)
    /\ hub' = HubSubscribe(hub, from_request_parts(h, TRUE).user_id)
    /\ reply' = Reply("events", h, len, 200, "", 1)
    /\ UNCHANGED <<users, auth_rate_limiter, now, authHist>>
    /\ UNCHANGED <<srv, fs, svc, local, rows, sessions, put, nput, lastGet, client, hist>>

\* ------------------------------------------------- the rate limiter, accounts

\* RateLimiter::new(10, 60): the admissions per address and the window.
max_requests == 10
window == 60

\* Vec::retain of check: the instants still inside the window.
RECURSIVE Retain(_, _)
Retain(ts, t) ==
    IF ts = <<>> THEN <<>>
    ELSE IF t - Head(ts) < window THEN <<Head(ts)>> \o Retain(Tail(ts), t)
    ELSE Retain(Tail(ts), t)

\* RateLimiter::check that refuses only with more than max_requests instants
\* left.
RateLimiter_check_above_max(requests, ip, t) ==
    LET timestamps == Retain(requests[ip], t)
    IN  IF Len(timestamps) > max_requests
        THEN [ok |-> FALSE, requests |-> [requests EXCEPT ![ip] = timestamps]]
        ELSE [ok |-> TRUE,
              requests |-> [requests EXCEPT ![ip] = Append(timestamps, t)]]

\* RateLimiter::check: the address's instants are pruned; with max_requests
\* of them left the call is refused and nothing is pushed.
RateLimiter_check(requests, ip, t) ==
    LET timestamps == Retain(requests[ip], t)
    IN  IF Len(timestamps) >= max_requests
        THEN [ok |-> FALSE, requests |-> [requests EXCEPT ![ip] = timestamps]]
        ELSE [ok |-> TRUE,
              requests |-> [requests EXCEPT ![ip] = Append(timestamps, t)]]

\* History: the call, its instant and its outcome.
Called(ip, ok) ==
    [authHist EXCEPT !.last = [ip |-> ip, at |-> now, ok |-> ok],
                     !.admitted[ip] = IF ok THEN Append(@, now) ELSE @]

\* create_session: a token never issued before, and its row.
Tokens == {"t0", "t1", "t2", "t3"}
FreshTokens == Tokens \ {i.token : i \in authHist.issued}
create_session(tok, user_id) ==
    tok :> SessionRow(user_id, now + session_expiry_days * DaySeconds) @@ sessions

\* validate_registration: the message of the first check that fails, "" if
\* none does; String::len counts bytes.
Alphanumeric ==
    {"a", "b", "c", "d", "e", "f", "g", "h", "i", "j", "k", "l", "m", "n", "o",
     "p", "q", "r", "s", "t", "u", "v", "w", "x", "y", "z", "0", "1", "2", "3",
     "4", "5", "6", "7", "8", "9", "e-acute"}
validate_registration(req) ==
    IF req.username = <<>> \/ req.password = <<>> \/ req.email = <<>>
    THEN "username, email, and password are required"
    ELSE IF StrLen(req.username) > 64
    THEN "username must be at most 64 characters"
    ELSE IF \E i \in 1..Len(req.username) :
                req.username[i] \notin Alphanumeric \cup {"_", "-"}
    THEN "username must contain only alphanumeric characters, hyphens, or underscores"
    ELSE IF StrLen(req.email) > 255
    THEN "email must be at most 255 characters"
    ELSE IF ~Contains(req.email, "@") \/ ~Contains(req.email, ".")
    THEN "email must be a valid email address"
    ELSE IF StrLen(req.password) < 8
    THEN "password must be at least 8 characters"
    ELSE IF StrLen(req.password) > 1024
    THEN "password must be at most 1024 characters"
    ELSE ""

\* The unique keys of table users: the username and the email.
UniqueUser(req) ==
    \E r \in users : r.username = req.username \/ r.email = req.email

\* POST /register. dbok: whether the INSERT into users runs.
register(ip, req, dbok) ==
    /\ reply.n < MaxRequests
    /\ LET chk == RateLimiter_check(auth_rate_limiter, ip, now)
           msg == validate_registration(req)
           Answer(e, db) == Reply("register", NoHeader, 0, IntoResponse(e).status,
                                  IntoResponse(e).body, db)
       IN  /\ auth_rate_limiter' = chk.requests
           /\ IF ~chk.ok
              THEN /\ reply' = Answer("RateLimited", 0)
                   /\ authHist' = Called(ip, FALSE)
                   /\ UNCHANGED <<users, sessions>>
              ELSE IF msg # ""
              THEN /\ reply' = Answer(msg, 0)
                   /\ authHist' = Called(ip, TRUE)
                   /\ UNCHANGED <<users, sessions>>
              ELSE IF ~dbok
              THEN /\ reply' = Answer("Database", 1)
                   /\ authHist' = Called(ip, TRUE)
                   /\ UNCHANGED <<users, sessions>>
              ELSE IF UniqueUser(req)
              THEN /\ reply' = Answer("UserAlreadyExists", 1)
                   /\ authHist' = Called(ip, TRUE)
                   /\ UNCHANGED <<users, sessions>>
              ELSE \E id \in Users \ {r.id : r \in users} : \E tok \in FreshTokens :
                        /\ users' = users \cup {UserRow(id, req.username, req.email,
                                                        hash_password(req.password))}
                        /\ sessions' = create_session(tok, id)
                        /\ reply' = Reply("register", NoHeader, 0, 200, tok, 2)
                        /\ authHist' = [Called(ip, TRUE) EXCEPT
                              !.issued = @ \cup {[token |-> tok, user_id |-> id]}]
    /\ UNCHANGED now
    /\ UNCHANGED <<srv, fs, svc, local, rows, put, nput, lastGet, hub, client, hist>>

\* login_result with an error of its own for a name that is not registered.
login_result_names_unknown(req, dbok) ==
    LET found == {r \in users : r.username = req.username}
    IN  IF ~dbok THEN [err |-> "Database", user_id |-> NoUser]
        ELSE IF found = {} THEN [err |-> "unknown user", user_id |-> NoUser]
        ELSE LET user == CHOOSE r \in found : TRUE
             IN  IF ~verify_password(req.password, user.password)
                 THEN [err |-> "InvalidCredentials", user_id |-> NoUser]
                 ELSE [err |-> "", user_id |-> user.id]

\* login after the rate limiter: the error it ends with, or "" and the user
\* whose session it creates. dbok: whether the SELECT from users runs.
login_result(req, dbok) ==
    LET found == {r \in users : r.username = req.username}
    IN  IF ~dbok THEN [err |-> "Database", user_id |-> NoUser]
        ELSE IF found = {} THEN [err |-> "InvalidCredentials", user_id |-> NoUser]
        ELSE LET user == CHOOSE r \in found : TRUE
             IN  IF ~verify_password(req.password, user.password)
                 THEN [err |-> "InvalidCredentials", user_id |-> NoUser]
                 ELSE [err |-> "", user_id |-> user.id]

\* POST /login.
login(ip, req, dbok) ==
    /\ reply.n < MaxRequests
    /\ LET chk == RateLimiter_check(auth_rate_limiter, ip, now)
           res == login_result(req, dbok)
           Answer(e, db) == Reply("login", NoHeader, 0, IntoResponse(e).status,
                                  IntoResponse(e).body, db)
       IN  /\ auth_rate_limiter' = chk.requests
           /\ IF ~chk.ok
              THEN /\ reply' = Answer("RateLimited", 0)
                   /\ authHist' = Called(ip, FALSE)
                   /\ UNCHANGED sessions
              ELSE IF res.err # ""
              THEN /\ reply' = Answer(res.err, 1)
                   /\ authHist' = Called(ip, TRUE)
                   /\ UNCHANGED sessions
              ELSE \E tok \in FreshTokens :
                        /\ sessions' = create_session(tok, res.user_id)
                        /\ reply' = Reply("login", NoHeader, 0, 200, tok, 2)
                        /\ authHist' = [Called(ip, TRUE) EXCEPT
                              !.issued = @ \cup {[token |-> tok, user_id |-> res.user_id]}]
    /\ UNCHANGED <<users, now>>
    /\ UNCHANGED <<srv, fs, svc, local, rows, put, nput, lastGet, hub, client, hist>>

\* The clock advances to a later instant of those a run observes.
Instants == {0, window - 1, window}
Tick(t) ==
    /\ t > now
    /\ now' = t
    /\ UNCHANGED <<users, auth_rate_limiter, reply, authHist>>
    /\ UNCHANGED <<srv, fs, svc, local, rows, sessions, put, nput, lastGet, hub, client, hist>>

\* History: the calls admitted so far.
RECURSIVE SumLen(_, _)
SumLen(f, S) ==
    IF S = {} THEN 0
    ELSE LET x == CHOOSE y \in S : TRUE IN Len(f[x]) + SumLen(f, S \ {x})
Admissions == SumLen(authHist.admitted, Addrs)

\* RateLimiter::check called for an attempt from ip.
check_rate(ip) ==
    /\ Admissions < MaxChecks
    /\ LET chk == RateLimiter_check(auth_rate_limiter, ip, now)
       IN  /\ auth_rate_limiter' = chk.requests
           /\ authHist' = Called(ip, chk.ok)
    /\ UNCHANGED <<users, now, reply>>
    /\ UNCHANGED <<srv, fs, svc, local, rows, sessions, put, nput, lastGet, hub, client, hist>>

\* The headers of the requests: none, the bearer of a session, of a session
\* about to expire, of tokens not yet issued, of no session, and a token
\* under another spelling of the scheme.
AuthHeaders ==
    {NoHeader, Header("Bearer ", "t1"), Header("Bearer ", "t0"), Header("Bearer ", "t2"),
     Header("Bearer ", "t3"), Header("Bearer ", "stale"), Header("bearer ", "t1")}

\* The declared lengths of the requests' bodies.
BodyLengths == {0, BodyLimit + 1}

\* Registrations: a new account, a short password, a password of four
\* two-byte characters, an email without '@', one without '.', a taken name.
PassShort == <<"s", "e", "c", "r", "e", "t">>
PassAccents == <<"e-acute", "e-acute", "e-acute", "e-acute">>
NameCy == <<"c", "y">>
MailCy == <<"c", "@", "x", ".", "y">>
Registration(n, e, p) == [username |-> n, email |-> e, password |-> p]
Registrations ==
    {Registration(NameBo, MailBo, PassBo), Registration(NameBo, MailBo, PassShort),
     Registration(NameBo, MailBo, PassAccents),
     Registration(NameBo, <<"b", ".", "y">>, PassBo),
     Registration(NameBo, <<"b", "@", "x">>, PassBo),
     Registration(NameAl, MailCy, PassBo)}

\* Logins: the password of the account, a wrong one, an unknown name.
Credentials(n, p) == [username |-> n, password |-> p]
Logins ==
    {Credentials(NameAl, PassAl), Credentials(NameAl, PassBo),
     Credentials(NameCy, PassAl), Credentials(NameBo, PassBo)}

\* One account with a session and a session that expires at the second
\* instant the clock is read at; the
\* second address has used up its admissions at instant 0.
AuthSessions ==
    ("t1" :> SessionRow("u1", session_expiry_days * DaySeconds))
        @@ ("t0" :> SessionRow("u1", window))
InitAuth ==
    /\ rows = {}
    /\ sessions = AuthSessions
    /\ srv = Serving
    /\ users = {UserRow("u1", NameAl, MailAl, hash_password(PassAl))}
    /\ auth_rate_limiter = [ip \in Addrs |->
            IF ip = "ip2" THEN [i \in 1..max_requests |-> 0] ELSE <<>>]
    /\ now = 0
    /\ reply = NoReply
    /\ authHist = [last |-> [ip |-> "ip2", at |-> 0, ok |-> TRUE],
                   admitted |-> [ip \in Addrs |->
                        IF ip = "ip2" THEN [i \in 1..max_requests |-> 0] ELSE <<>>],
                   issued |-> Issued(AuthSessions)]
    /\ put = [p \in PutIds |-> IdlePut]
    /\ nput = 0
    /\ lastGet = [status |-> 0, user |-> NoUser, archived |-> FALSE,
                  items |-> Empty, last |-> Empty]
    /\ hub = [u \in Users |-> NoChannel]
    /\ client = [c \in Clients |-> InitClient("t1")]
    /\ hist = [u \in Users |-> [a \in BOOLEAN |-> [ver |-> 0, last |-> Empty, ok |-> {}]]]
    /\ local = [disk |-> [a \in BOOLEAN |-> NoFile], written |-> [a \in BOOLEAN |-> <<>>],
                nset |-> 0, got |-> NoRead]
    /\ fs = [proc |-> [p \in Procs |-> [IdleProc EXCEPT !.pc = "down"]],
             lock |-> [a \in BOOLEAN |-> NoProc],
             temp |-> [p \in Procs |-> NoTemp],
             torn |-> [a \in BOOLEAN |-> FALSE],
             ncall |-> 0]
    /\ svc = NoCall

AuthRequests ==
    \E h \in AuthHeaders, len \in BodyLengths :
        \/ \E route \in AuthRoutes, dbok \in BOOLEAN : Rejected(route, h, len, dbok)
        \/ logout(h, len)
        \/ me(h, len)
        \/ events(h, len)

AccountRequests ==
    \E ip \in Addrs, dbok \in BOOLEAN :
        \/ \E req \in Registrations : register(ip, req, dbok)
        \/ \E req \in Logins : login(ip, req, dbok)

Clock == \E t \in Instants : Tick(t)

NextAuth == AuthRequests \/ AccountRequests \/ Tick(window)

SpecAuth == InitAuth /\ [][NextAuth]_vars

\* Attempts from two addresses while the clock advances.
NextRate == (\E ip \in Addrs : check_rate(ip)) \/ Clock

SpecRate == Init /\ [][NextRate]_vars

\* ------------------------------------------------- claims: sessions, accounts

\* The header is "Bearer <token>" and the token is that of a session that
\* has not expired.
ValidBearer(h) ==
    /\ h # NoHeader
    /\ h[1] = "Bearer "
    /\ \E t \in DOMAIN sessions : t = h[2] /\ sessions[t].expires_at > now

\* The step answers a request to a route behind a token whose header names
\* no unexpired session.
AnswersUnauthenticated ==
    /\ reply'.n = reply.n + 1
    /\ reply'.route \in AuthRoutes
    /\ ~ValidBearer(reply'.header)

\* C22 (amended): a request to /logout, /me, /items, /items/archive (GET and
\* PUT) or /events whose header is missing, is not "Bearer <token>", or names
\* no unexpired session is refused and changes no item, session or channel:
\* with 413 when it declares a body above the limit, else with 401, or with
\* 500 when the lookup of the session fails.
C22_UnauthenticatedRefused ==
    [][AnswersUnauthenticated =>
            /\ reply'.status \in {401, 413, 500}
            /\ reply'.status = 413 <=> PayloadTooLarge(reply'.len)
            /\ reply'.status = 500 => extract_bearer_token(reply'.header) # NoToken
            /\ UNCHANGED <<rows, sessions, hub>>]_vars

\* C22 as stated: every such request is answered 401.
C22_AlwaysUnauthorized ==
    [][AnswersUnauthenticated =>
            /\ reply'.status = 401
            /\ UNCHANGED <<rows, sessions, hub>>]_vars

\* C22 witness: a PUT with the bearer of a session that has expired has been
\* answered 401.
C22_Witness ==
    /\ reply.route = "put_items" /\ reply.header = Header("Bearer ", "t0")
    /\ reply.status = 401
    /\ "t0" \in DOMAIN sessions /\ now >= sessions["t0"].expires_at

\* The tokens issued so far to user u.
IssuedTo(u) == {i.token : i \in {x \in authHist.issued : x.user_id = u}}

\* C23: when DELETE /logout succeeds no token issued before to its owner
\* names a session any more, so the extractor refuses each of them on every
\* route, and none comes back; the sessions of other owners are as before;
\* the token a later login or registration returns names an unexpired
\* session of its user.
C23_LogoutEndsEverySession ==
    /\ [](\A i \in authHist.issued :
            i.token \notin DOMAIN sessions =>
                LET r == from_request_parts(Header("Bearer ", i.token), TRUE)
                IN  ~r.ok /\ IntoResponse(r.err).status = 401)
    /\ [][(reply'.n = reply.n + 1 /\ reply'.route = "logout" /\ reply'.status = 200) =>
            LET u == AuthUser(extract_bearer_token(reply'.header))
            IN  /\ u # NoUser
                /\ \A t \in IssuedTo(u) : t \notin DOMAIN sessions'
                /\ \A t \in DOMAIN sessions :
                        sessions[t].user_id # u =>
                            t \in DOMAIN sessions' /\ sessions'[t] = sessions[t]]_vars
    /\ [][\A i \in authHist.issued :
            i.token \notin DOMAIN sessions => i.token \notin DOMAIN sessions']_vars
    /\ [][(reply'.n = reply.n + 1 /\ reply'.route \in {"login", "register"}
                /\ reply'.status = 200) =>
            /\ reply'.body \notin {i.token : i \in authHist.issued}
            /\ reply'.body \in DOMAIN sessions'
            /\ sessions'[reply'.body].expires_at > now']_vars

\* C23 witness: after a registration and the first owner's logout, that
\* owner's login has returned a token that is valid, the tokens issued to
\* the owner before are gone, and the other owner's session is still there.
C23_Witness ==
    /\ reply.route = "login" /\ reply.status = 200
    /\ AuthUser(reply.body) = "u1"
    /\ {"t0", "t1"} \subseteq IssuedTo("u1")
    /\ {"t0", "t1"} \cap DOMAIN sessions = {}
    /\ \E t \in IssuedTo("u2") : AuthUser(t) = "u2"

\* The calls from ip admitted less than a window before instant t.
RecentAdmissions(ip, t) ==
    Cardinality({i \in 1..Len(authHist.admitted[ip]) :
                    t - authHist.admitted[ip][i] < window})

\* C24: a call of the rate limiter from an address is admitted iff fewer
\* than max_requests of that address's earlier admitted calls lie within the
\* last window seconds; so the call after max_requests admissions is refused,
\* a call is admitted again once the window has passed since the oldest
\* admission counted, a refused call is not counted, and the calls of other
\* addresses neither count nor are touched.
C24_SlidingWindowPerAddress ==
    [][authHist' # authHist =>
            LET c == authHist'.last
            IN  /\ c.ok <=> RecentAdmissions(c.ip, c.at) < max_requests
                /\ authHist'.admitted[c.ip] =
                        IF c.ok THEN Append(authHist.admitted[c.ip], c.at)
                        ELSE authHist.admitted[c.ip]
                /\ \A ip \in Addrs \ {c.ip} :
                        /\ auth_rate_limiter'[ip] = auth_rate_limiter[ip]
                        /\ authHist'.admitted[ip] = authHist.admitted[ip]]_vars

\* C24 witness: an address admitted max_requests times up to a second before
\* the window's end, the oldest at instant 0, is admitted again when the
\* window has passed since instant 0, while another address has been served.
C24_Witness ==
    /\ authHist.last = [ip |-> "ip1", at |-> window, ok |-> TRUE]
    /\ Len(authHist.admitted["ip1"]) = max_requests + 1
    /\ authHist.admitted["ip1"][1] = 0
    /\ authHist.admitted["ip1"][max_requests] = window - 1
    /\ authHist.admitted["ip2"] # <<>>

\* C25: a registration whose password has fewer than 8 characters, or whose
\* email lacks '@' or '.', is answered 400 (429 from an address the rate
\* limiter refuses) with the database up, and creates no row of users and
\* no row of sessions; a
\* registration or login answered 429 issues no statement to the database.
C25_WeakRegistrationRejected ==
    [][\A ip \in Addrs, dbok \in BOOLEAN :
         /\ \A req \in Registrations :
               (/\ register(ip, req, TRUE)
                /\ \/ Len(req.password) < 8
                   \/ ~Contains(req.email, "@")
                   \/ ~Contains(req.email, "."))
                    => /\ reply'.status \in {400, 429}
                       /\ UNCHANGED <<users, sessions>>
         /\ \A req \in Registrations :
               (register(ip, req, dbok) /\ reply'.status = 429)
                    => reply'.db = 0 /\ UNCHANGED <<users, sessions>>
         /\ \A req \in Logins :
               (login(ip, req, dbok) /\ reply'.status = 429)
                    => reply'.db = 0 /\ UNCHANGED <<users, sessions>>]_vars

\* The name of the credentials is not registered; it is, with another
\* password.
UnknownName(req) == \A r \in users : r.username # req.username
WrongPassword(req) ==
    \E r \in users : r.username = req.username /\ r.password # hash_password(req.password)

\* C26: a login with a registered name and a wrong password and a login with
\* a name that is not registered are answered alike, with the status and
\* the body that depend on the rate limiter's answer only, and neither
\* creates a session.
C26_LoginFailuresAlike ==
    [][\A ip \in Addrs, req \in Logins :
         (login(ip, req, TRUE) /\ (UnknownName(req) \/ WrongPassword(req))) =>
            /\ UNCHANGED sessions
            /\ <<reply'.status, reply'.body>> =
                    IF authHist'.last.ok
                    THEN <<401, "invalid credentials">>
                    ELSE <<429, "too many requests, try again later">>]_vars

\* C26 witness: a login the rate limiter admitted has been answered 401
\* "invalid credentials" and has created no session.
C26_Witness ==
    /\ reply.route = "login" /\ reply.status = 401 /\ reply.body = "invalid credentials"
    /\ reply.n = 1 /\ authHist.last.ok /\ sessions = AuthSessions

\* ------------------------------------------------------- claims: item limits

\* Bodies of n entries with keys "1" .. "n".
BodyOf(n) == [k \in {to_string(i) : i \in 1..n} |-> WireA]
BodyMax == BodyOf(MAX_ITEMS_PER_CATEGORY)
BodyOverMax == BodyOf(MAX_ITEMS_PER_CATEGORY + 1)
\* a nonce of 13 bytes: 20 chars of base64
WireNonce13 == EncryptedItemData(B64Encode(Bytes(40, "a")), B64Encode(Bytes(13, "n")))
BodyNonce13 == [k \in {"1"} |-> WireNonce13]
SizeBodies == {BodyMax, BodyOverMax, Body1A, BodyNonce13, BodyLongNonce}

\* PUTs of one owner, one after the other's reply, with bodies at the limit
\* of entries, above it and far below it, and with nonces of 12, 13 and 19
\* bytes.
SizeReceive ==
    /\ nput < MaxDbPuts
    /\ \A q \in PutIds : ~InFlight(q)
    /\ \E p \in PutIds, a \in BOOLEAN, items \in SizeBodies : PutReceive(p, "t1", a, items)

SizeSteps ==
    \E p \in PutIds :
        \/ PutDeleteStart(p)
        \/ PutDeleteFinish(p)
        \/ PutInsertRest(p)
        \/ PutCommit(p)
        \/ PutDbError(p)
        \/ PutNotify(p)
        \/ PutReply(p)

NextSize == SizeReceive \/ SizeSteps

SpecSize == Init /\ [][NextSize]_vars

C28_StoredNonceTwelveBytes ==
    /\ \A r \in rows : r.nonce.len = 12
    /\ \A p \in PutIds :
            put[p].status = 200 =>
                \A k \in DOMAIN put[p].body : B64Decode(put[p].body[k].nonce).len = 12

\* ------------------------------------------------------ the remote backend

\* The client's key, another key, and the key under which a ciphertext that
\* was altered authenticates: none.
ClientKey == "k1"
OtherKey == "k2"
NoKey == "none"

\* An AES-256-GCM ciphertext with its tag: it opens under the key and the
\* nonce it was sealed with, and holds the plaintext.
Sealed(key, nonce, plaintext) == [key |-> key, nonce |-> nonce, plain |-> plaintext]

\* serde_json::to_vec: the bytes of the text, counted by its fields.
JsonBytes(v) == 16 * Cardinality(DOMAIN v)

\* encrypt_item that returns another nonce than the one it sealed under.
encrypt_item_other_nonce(key, item, nonce) ==
    [data |-> Bytes(JsonBytes(ItemToJson(item)) + 16,
                    Sealed(key, Bytes(12, <<0, "other">>), ItemToJson(item))),
     nonce |-> nonce]

\* encrypt_item: the item serialized and sealed under a nonce of 12 bytes.
encrypt_item(key, item, nonce) ==
    [data |-> Bytes(JsonBytes(ItemToJson(item)) + 16, Sealed(key, nonce, ItemToJson(item))),
     nonce |-> nonce]

\* decrypt_item: the length of the nonce, the opening of the ciphertext, the
\* parse of the plaintext.
decrypt_item(key, encrypted) ==
    IF encrypted.nonce.len # 12 THEN [ok |-> FALSE, err |-> "InvalidNonce"]
    ELSE IF encrypted.data.tag.key # key \/ encrypted.data.tag.nonce # encrypted.nonce
    THEN [ok |-> FALSE, err |-> "DecryptionFailed"]
    ELSE LET parsed == ItemFromJson(encrypted.data.tag.plain)
         IN  IF ~parsed.ok THEN [ok |-> FALSE, err |-> "Json"]
             ELSE [ok |-> TRUE, item |-> parsed.item]

\* The nonce generate_nonce draws for the entry of key k in a call whose
\* draws are named by seed.
Nonce(seed, k) == Bytes(12, <<seed, k>>)

\* RemoteStorage::encrypt_items: every item encrypted and encoded.
RemoteStorage_encrypt_items(key, items, seed) ==
    [k \in DOMAIN items |->
        LET e == encrypt_item(key, items[k], Nonce(seed, k))
        IN  EncryptedItemData(B64Encode(e.data), B64Encode(e.nonce))]

\* One turn of the loop of RemoteStorage::decrypt_items: both texts decoded,
\* then decrypt_item.
DecryptEntry(key, item_data) ==
    LET data == B64Decode(item_data.data)
        nonce == B64Decode(item_data.nonce)
    IN  IF data = DecodeError THEN [ok |-> FALSE, err |-> "invalid base64 data"]
        ELSE IF nonce = DecodeError THEN [ok |-> FALSE, err |-> "invalid base64 nonce"]
        ELSE decrypt_item(key, [data |-> data, nonce |-> nonce])

\* The error of a store operation.
GeneralError == [ok |-> FALSE, id |-> 0, value |-> "error"]

\* decrypt_items that leaves out the entries that fail.
RemoteStorage_decrypt_items_skipping(key, encrypted) ==
    [ok |-> TRUE,
     items |-> [k \in {x \in DOMAIN encrypted : DecryptEntry(key, encrypted[x]).ok} |->
                    DecryptEntry(key, encrypted[k]).item]]

\* RemoteStorage::decrypt_items: `?` on every entry, so the first failure
\* is the result of the read.
RemoteStorage_decrypt_items(key, encrypted) ==
    IF \E k \in DOMAIN encrypted : ~DecryptEntry(key, encrypted[k]).ok
    THEN GeneralError
    ELSE [ok |-> TRUE,
          items |-> [k \in DOMAIN encrypted |-> DecryptEntry(key, encrypted[k]).item]]

\* The client's user.
RemoteUser == AuthUser("t1")

\* ApiClient::put_items / put_archive as the server answers it: the size
\* checks, then the bucket replaced by the body.
RemotePut(a, body) ==
    IF ~ValidationOk(body) THEN rows
    ELSE (rows \ SelectRows(RemoteUser, a))
            \cup {Row(RemoteUser, k, a, B64Decode(body[k].data), B64Decode(body[k].nonce)) :
                    k \in DOMAIN body}

\* A store operation of the remote backend returns. History: its name, its
\* arguments, its result and the number of PUTs it sent.
RemoteReturn(op, arg, res, writes) ==
    /\ svc' = [op |-> op, arg |-> arg, res |-> res, writes |-> writes, n |-> svc.n + 1]
    /\ UNCHANGED <<AuthVars, srv, fs, local, sessions, put, nput, lastGet, hub, client, hist>>

\* RemoteStorage::set / set_archive: encrypt, then PUT.
remote_set(a, data, seed) ==
    /\ svc.n < MaxSvcCalls
    /\ LET encrypted == RemoteStorage_encrypt_items(ClientKey, data, seed)
       IN  /\ rows' = RemotePut(a, encrypted)
           /\ RemoteReturn("set", <<a, data>>,
                           IF ValidationOk(encrypted) THEN Ok(0) ELSE GeneralError, 1)

\* RemoteStorage::get / get_archive: GET, then decrypt; received is the map
\* of the reply.
remote_get(a, received) ==
    /\ svc.n < MaxSvcCalls
    /\ UNCHANGED rows
    /\ RemoteReturn("get", <<a, received>>,
                    RemoteStorage_decrypt_items(ClientKey, received), 0)

\* check_tasks on the remote backend: get_data()?, validate, mutate, save.
remote_check_tasks(ids, received) ==
    /\ svc.n < MaxSvcCalls
    /\ LET got == RemoteStorage_decrypt_items(ClientKey, received)
           v == validate_ids(ids, get_ids(got.items))
           seed == svc.n
       IN  IF ~got.ok
           THEN /\ UNCHANGED rows
                /\ RemoteReturn("check", <<FALSE, received>>, GeneralError, 0)
           ELSE IF ~v.ok
           THEN /\ UNCHANGED rows
                /\ RemoteReturn("check", <<FALSE, received>>, InvalidId(v.id), 0)
           ELSE /\ rows' = RemotePut(FALSE,
                                RemoteStorage_encrypt_items(ClientKey,
                                    mutate_each(got.items, v.ids, "check"), seed))
                /\ RemoteReturn("check", <<FALSE, received>>, Ok(0), 1)

\* An entry of a reply as a peer may send it that is not the work of
\* encrypt_items under the client's key: a data or a nonce that is not
\* base64, a nonce of 13 bytes, a ciphertext sealed under another key, one
\* that was altered, and one whose plaintext is not an item.
FaultyEntries(e) ==
    {[e EXCEPT !.data = Text(e.data.bytes, "illegal")],
     [e EXCEPT !.nonce = Text(e.nonce.bytes, "unpadded")],
     [e EXCEPT !.nonce = B64Encode(Bytes(13, e.nonce.bytes.tag))],
     [e EXCEPT !.data = B64Encode([e.data.bytes EXCEPT !.tag.key = OtherKey])],
     [e EXCEPT !.data = B64Encode([e.data.bytes EXCEPT !.tag.key = NoKey])],
     [e EXCEPT !.data = B64Encode([e.data.bytes EXCEPT !.tag.plain = ("x" :> 1)])]}

\* The maps a GET of bucket a may deliver: the bucket, and the bucket with
\* one entry faulty.
Received(a) ==
    LET bucket == Bucket(RemoteUser, a)
    IN  {bucket} \cup UNION {{[bucket EXCEPT ![k] = f] : f \in FaultyEntries(bucket[k])} :
                                k \in DOMAIN bucket}

\* The draws of the nonces of one call.
Seeds == {1, 2}

RemoteCalls ==
    \/ \E a \in BOOLEAN, data \in LocalMaps, seed \in Seeds : remote_set(a, data, seed)
    \/ \E a \in BOOLEAN : \E received \in Received(a) : remote_get(a, received)
    \/ \E ids \in {<<1>>, <<2, 1>>} : \E received \in Received(FALSE) :
            remote_check_tasks(ids, received)

NextCrypt == RemoteCalls

SpecCrypt == Init /\ [][NextCrypt]_vars

\* ------------------------------------------------ claims: the remote backend

\* The entry fails one of the four steps of its decoding under the client's
\* key: base64, the length of the nonce, the authentication of the
\* ciphertext, the parse of the plaintext.
FailsDecoding(e) ==
    \/ e.data.form # "canonical"
    \/ e.nonce.form # "canonical"
    \/ e.nonce.bytes.len # 12
    \/ e.data.bytes.tag.key # ClientKey
    \/ e.data.bytes.tag.nonce # e.nonce.bytes
    \/ ~ItemFromJson(e.data.bytes.tag.plain).ok

\* C29: a remote read or a service operation whose read receives a map with
\* an entry that fails base64 decoding, has a nonce of another length than
\* 12, fails authentication or does not parse, returns an error and no map,
\* and sends no PUT: the bucket stays as it is; a read that succeeds returns
\* an item for every key received.
C29_ReadFailsWhole ==
    /\ []((svc.op = "get" /\ svc.res.ok) => DOMAIN svc.res.items = DOMAIN svc.arg[2])
    /\ [][(/\ svc'.n = svc.n + 1
           /\ svc'.op \in {"get", "check"}
           /\ \E k \in DOMAIN svc'.arg[2] : FailsDecoding(svc'.arg[2][k]))
            => /\ svc'.res = GeneralError
               /\ svc'.writes = 0
               /\ rows' = rows]_vars

\* C29 witness: check_tasks whose read received a map of two entries, one
\* that decodes and one that does not, has returned the error and the bucket
\* holds both rows.
C29_Witness ==
    /\ svc.op = "check" /\ svc.res = GeneralError /\ svc.writes = 0
    /\ DOMAIN svc.arg[2] = {"1", "2"}
    /\ ~FailsDecoding(svc.arg[2]["1"]) /\ FailsDecoding(svc.arg[2]["2"])
    /\ Cardinality(SelectRows(RemoteUser, FALSE)) = 2

\* The step is a remote read of the bucket the operation before it has
\* written, delivered as the server holds it.
ReadsBackWrite ==
    /\ svc.op = "set" /\ svc.res.ok
    /\ svc'.n = svc.n + 1 /\ svc'.op = "get"
    /\ svc'.arg[1] = svc.arg[1]
    /\ svc'.arg[2] = Bucket(RemoteUser, svc.arg[1])

\* The items that decrypt_item returns as they were given to encrypt_item,
\* under the same key, whatever the key and the nonce drawn.
ItemsReturned ==
    {item \in LocalItems :
        \A key \in {ClientKey, OtherKey}, seed \in Seeds :
            decrypt_item(key, encrypt_item(key, item, Nonce(seed, "1")))
                = [ok |-> TRUE, item |-> item]}

\* C30 (amended): for every item whose kind flag agrees with its variant and
\* whose board names are in normalized form, every key and every nonce
\* drawn, decrypt_item under the key of encrypt_item returns the item, equal
\* in every field, tasks and notes alike, and it returns no other item as it
\* was given; and a remote write of a map of such items that the server
\* accepts, followed by the read of the same bucket, returns the map.
C30_RoundTripCanonical ==
    /\ [](\A item \in ItemsReturned : Canonical("1" :> item))
    /\ [](\A item \in LocalItems : Canonical("1" :> item) => item \in ItemsReturned)
    /\ [][(ReadsBackWrite /\ Canonical(svc.arg[2]))
            => svc'.res = [ok |-> TRUE, items |-> svc.arg[2]]]_vars

\* C30 as stated: the round trip returns every item, and every map, as it
\* was written.
C30_RoundTrip ==
    /\ [](\A item \in LocalItems : item \in ItemsReturned)
    /\ [][ReadsBackWrite => svc'.res = [ok |-> TRUE, items |-> svc.arg[2]]]_vars

\* C30 witness: a task and a note with an empty body, written to the archive
\* through the remote backend, have been read back as written.
C30_Witness ==
    /\ svc.op = "get" /\ svc.res.ok /\ svc.n = 2 /\ svc.arg[1]
    /\ svc.arg[2] = Bucket(RemoteUser, TRUE)
    /\ DOMAIN svc.res.items = {"1", "2"}
    /\ Canonical(svc.res.items)
    /\ svc.res.items["1"].variant = "Task"
    /\ svc.res.items["2"].body = Some("")

\* ------------------------------------------------------------ the API client

\* replace_items: the message of the first size check that fails.
ValidationMessage(items) ==
    IF Cardinality(DOMAIN items) > MAX_ITEMS_PER_CATEGORY THEN "too many items"
    ELSE IF \E k \in DOMAIN items : KeyLen(k) > MaxKeyLen
    THEN "item key must be at most 64 characters"
    ELSE IF \E k \in DOMAIN items : TextLen(items[k].nonce) > MaxNonceChars
    THEN "invalid nonce size"
    ELSE "item data too large"

\* The response of the server to GET (body = Empty) or PUT of a bucket: the
\* extractor, the size checks, the queries; dbok is whether the queries run.
\* Every error leaves as {"error": message} with the status of into_response.
ServerResponse(h, body, dbok) ==
    LET r == from_request_parts(h, dbok)
    IN  IF ~r.ok THEN IntoResponse(r.err)
        ELSE IF ~ValidationOk(body) THEN IntoResponse(ValidationMessage(body))
        ELSE IF ~dbok THEN IntoResponse("Database")
        ELSE [status |-> 200, body |-> "ok"]

\* StatusCode::is_success
is_success(status) == status >= 200 /\ status <= 299

\* Err(TaskbookError::Network(..)), Err(TaskbookError::Auth(..))
Network(msg) == [ok |-> FALSE, kind |-> "Network", msg |-> msg]
Auth(msg) == [ok |-> FALSE, kind |-> "Auth", msg |-> msg]

\* send(): the request does not reach the server, its response does not
\* reach the client, or the client has the response.
Sends == {"refused", "lost", "answered"}

\* auth_header: "Bearer <token>" of the stored token.
auth_header(token) ==
    IF token = NoToken THEN Auth("not logged in")
    ELSE [ok |-> TRUE, header |-> Header("Bearer ", token)]

\* ApiClient::get_items / get_archive / put_items / put_archive: the result
\* of the call from the outcome of send() and the status of the response.
ApiClient_result(token, send, resp, what) ==
    IF ~auth_header(token).ok THEN auth_header(token)
    ELSE IF send # "answered" THEN Network("error sending request")
    ELSE IF is_success(resp.status) THEN [ok |-> TRUE, kind |-> "Ok", msg |-> ""]
    ELSE Network(what)

\* The call returns. History: the request and the response the server gave.
ApiReturn(op, a, token, send, resp, res) ==
    /\ svc' = [op |-> op,
               arg |-> <<a, token, send, IF send = "refused" THEN 0 ELSE resp.status,
                         IF send = "refused" THEN "" ELSE resp.body>>,
               res |-> res, writes |-> 0, n |-> svc.n + 1]
    /\ UNCHANGED <<AuthVars, srv, fs, local, sessions, put, nput, lastGet, hub, client, hist>>

\* ApiClient::put_items (a = FALSE) / put_archive (a = TRUE) of a client that
\* holds token, and the replacement of the bucket when the server accepts.
api_put(token, a, body, send, dbok) ==
    /\ svc.n < MaxSvcCalls
    /\ LET h == IF token = NoToken THEN NoHeader ELSE Header("Bearer ", token)
           resp == ServerResponse(h, body, dbok)
           u == AuthUser(token)
           what == IF a THEN "failed to save archive" ELSE "failed to save items"
       IN  /\ rows' = IF token # NoToken /\ send # "refused" /\ resp.status = 200
                      THEN (rows \ SelectRows(u, a))
                            \cup {Row(u, k, a, B64Decode(body[k].data),
                                      B64Decode(body[k].nonce)) : k \in DOMAIN body}
                      ELSE rows
           /\ ApiReturn("api_put", a, token, send, resp,
                        ApiClient_result(token, send, resp, what))

\* ApiClient::get_items / get_archive.
api_get(token, a, send, dbok) ==
    /\ svc.n < MaxSvcCalls
    /\ LET h == IF token = NoToken THEN NoHeader ELSE Header("Bearer ", token)
           resp == ServerResponse(h, Empty, dbok)
           what == IF a THEN "failed to fetch archive" ELSE "failed to fetch items"
       IN  /\ UNCHANGED rows
           /\ ApiReturn("api_get", a, token, send, resp,
                        ApiClient_result(token, send, resp, what))

\* The clients' tokens: of a session, of none, and no token stored.
ApiTokens == {"t1", "stale", NoToken}

ApiCalls ==
    \/ \E token \in ApiTokens, a \in BOOLEAN, body \in {Body1A, Body12, BodyLongNonce},
          send \in Sends, dbok \in BOOLEAN : api_put(token, a, body, send, dbok)
    \/ \E token \in ApiTokens, a \in BOOLEAN, send \in Sends, dbok \in BOOLEAN :
            api_get(token, a, send, dbok)

NextApi == ApiCalls

SpecApi == Init /\ [][NextApi]_vars

\* ------------------------------------------------------ claims: the API client

\* The step is a GET or a PUT of the API client.
ApiStep == svc'.n = svc.n + 1 /\ svc'.op \in {"api_get", "api_put"}

\* C31: GET and PUT on both buckets give Network on a transport error, Auth
\* on a response of status 401, Invariant with the server's message on any
\* other 4xx response, Network on a 5xx response.
C31_ErrorsMapped ==
    [][ApiStep /\ svc'.arg[2] # NoToken =>
            /\ svc'.arg[3] # "answered" => svc'.res.kind = "Network"
            /\ (svc'.arg[3] = "answered" /\ svc'.arg[4] = 401) => svc'.res.kind = "Auth"
            /\ (svc'.arg[3] = "answered" /\ svc'.arg[4] \in 400..499 \ {401})
                    => svc'.res.kind = "Invariant" /\ svc'.res.msg = svc'.arg[5]
            /\ (svc'.arg[3] = "answered" /\ svc'.arg[4] \in 500..599)
                    => svc'.res.kind = "Network"]_vars

\* ---------------------------------------------- shutdown, the reader thread

\* shutdown_signal resolves on SIGINT or SIGTERM: with_graceful_shutdown
\* stops accepting connections.
ShutdownSignal(sig) ==
    /\ srv.phase = "serving"
    /\ srv' = [srv EXCEPT !.phase = "draining", !.signal = sig]
    /\ UNCHANGED <<rows, sessions, AuthVars, put, nput, lastGet, hub, client, hist, local, fs, svc>>

\* KeepAlive::new().interval(15 s): the stream of a connected reader is sent
\* a comment frame; the reader reads its lines and dispatches nothing.
KeepAlive(c) ==
    /\ srv.phase # "exited"
    /\ client[c].sse = "up"
    /\ srv' = [srv EXCEPT !.ka[c] = 1 - @]
    /\ UNCHANGED <<rows, sessions, AuthVars, put, nput, lastGet, hub, client, hist, local, fs, svc>>

\* axum::serve with a graceful shutdown returns once every connection has
\* ended: no handler is in flight and no event stream is open; main then
\* returns and the process exits with code 0.
ServerExit ==
    /\ srv.phase = "draining"
    /\ \A p \in PutIds : ~InFlight(p)
    /\ \A c \in Clients : client[c].sse # "up"
    /\ srv' = [srv EXCEPT !.phase = "exited", !.code = 0]
    /\ UNCHANGED <<rows, sessions, AuthVars, put, nput, lastGet, hub, client, hist, local, fs, svc>>

\* spawn_sse_thread, send() of GET /events answered with success: the reader
\* reads the stream; its receiver starts at the channel's tail.
ReaderConnect(c) ==
    /\ srv.phase = "serving"
    /\ client[c].sse = "down"
    /\ LET u == AuthUser(client[c].token)
       IN  /\ u # NoUser
           /\ hub' = HubSubscribe(hub, u)
           /\ client' = [client EXCEPT ![c].sse = "up",
                                       ![c].next = hub'[u].tail,
                                       ![c].since = hub'[u].tail]
    /\ UNCHANGED <<AuthVars, srv, fs, svc, local, rows, sessions, put, nput, lastGet, hist>>

\* spawn_sse_thread, `_ => {}`: send() failed (the server accepts no
\* connection) or the status is not a success (no session): on to the delay.
ReaderConnectFails(c) ==
    /\ client[c].sse = "down"
    /\ client' = [client EXCEPT ![c].sse = "sleep"]
    /\ UNCHANGED <<AuthVars, srv, fs, svc, local, rows, sessions, put, nput, lastGet, hub, hist>>

\* spawn_sse_thread, the end of `for line in reader.lines()`: the stream
\* ended or a read failed; the response is dropped, and with it the
\* server's stream and receiver; on to the delay.
ReaderStreamEnd(c) ==
    /\ client[c].sse = "up"
    /\ hub' = HubDropReceiver(hub, AuthUser(client[c].token))
    /\ client' = [client EXCEPT ![c].sse = "sleep", ![c].next = 0, ![c].since = 0]
    /\ UNCHANGED <<AuthVars, srv, fs, svc, local, rows, sessions, put, nput, lastGet, hist>>

\* spawn_sse_thread, a data_changed frame whose send to the main loop fails:
\* `return`, the thread ends.
ReaderSendFails(c) ==
    /\ ~client[c].running
    /\ client[c].sse = "up"
    /\ RecvKind(hub[AuthUser(client[c].token)], client[c].next) # "empty"
    /\ hub' = HubDropReceiver(hub, AuthUser(client[c].token))
    /\ client' = [client EXCEPT ![c].sse = "exit", ![c].next = 0, ![c].since = 0]
    /\ UNCHANGED <<AuthVars, srv, fs, svc, local, rows, sessions, put, nput, lastGet, hist>>

\* spawn_sse_thread after thread::sleep(5 s): Event::Tick is sent to the main
\* loop and the reader connects again; when the send fails the thread ends.
ReaderWake(c) ==
    /\ client[c].sse = "sleep"
    /\ client' = [client EXCEPT ![c] =
            IF client[c].running
            THEN [@ EXCEPT !.sse = "down", !.inbox = Append(@, EventTick)]
            ELSE [@ EXCEPT !.sse = "exit"]]
    /\ UNCHANGED <<AuthVars, srv, fs, svc, local, rows, sessions, put, nput, lastGet, hub, hist>>

\* ClientTick with a Tick that reloads the bucket the view shows.
ClientTickRefreshes(c) ==
    /\ client[c].running
    /\ client[c].inbox # <<>>
    /\ Head(client[c].inbox) = EventTick
    /\ client' = [client EXCEPT ![c] =
            Loaded([@ EXCEPT !.inbox = Tail(@)], AuthUser(client[c].token),
                   ViewArchived(client[c].view))]
    /\ UNCHANGED <<AuthVars, srv, fs, svc, local, rows, sessions, put, nput, lastGet, hub, hist>>

\* run_app, Event::Tick: app.tick(), which touches no item.
ClientTick(c) ==
    /\ client[c].running
    /\ client[c].inbox # <<>>
    /\ Head(client[c].inbox) = EventTick
    /\ client' = [client EXCEPT ![c].inbox = Tail(@)]
    /\ UNCHANGED <<AuthVars, srv, fs, svc, local, rows, sessions, put, nput, lastGet, hub, hist>>

\* run_app returns (app.running is false) and the EventHandler is dropped:
\* the main loop's end of the channel is closed.
ClientQuit(c) ==
    /\ client[c].running
    /\ client' = [client EXCEPT ![c].running = FALSE, ![c].inbox = <<>>]
    /\ UNCHANGED <<AuthVars, srv, fs, svc, local, rows, sessions, put, nput, lastGet, hub, hist>>

\* The server under a signal: the owner's PUTs one after the other's reply
\* while it accepts, readers that connect and whose connections may end, the
\* frames of their streams.
Signals == {"SIGINT", "SIGTERM"}

MaxStopPuts == 1

StopReceive ==
    /\ srv.phase = "serving"
    /\ nput < MaxStopPuts
    /\ \E p \in PutIds, req \in StreamRequests : PutReceive(p, req[1], req[2], req[3])

StopClient ==
    \E c \in Clients :
        \/ ReaderConnect(c)
        \/ StreamNext(c)
        \/ KeepAlive(c)
        \/ ReaderStreamEnd(c)

StopServer == (\E sig \in Signals : ShutdownSignal(sig)) \/ ServerExit

NextStop == StopReceive \/ PutSteps \/ StopClient \/ StopServer

\* The runtime runs every task that can make progress: the handlers, the
\* streams and their keep-alive timers, and main. A connection ends when the
\* reader or the network ends it: nothing makes that happen.
FairStop ==
    /\ WF_vars(PutSteps)
    /\ WF_vars(ServerExit)
    /\ \A c \in Clients : WF_vars(KeepAlive(c)) /\ WF_vars(StreamNext(c))

SpecStop == Init /\ [][NextStop]_vars /\ FairStop

\* One reader thread and its main loop, while the owner's buckets are
\* replaced: the reader connects, reads, sleeps and reconnects; the main loop
\* takes what it is sent, and may end.
MaxInbox == 2

ReaderSteps ==
    \E c \in {"c1"} :
        \/ ReaderConnect(c)
        \/ ReaderConnectFails(c)
        \/ StreamNext(c)
        \/ KeepAlive(c)
        \/ ReaderStreamEnd(c)
        \/ ReaderSendFails(c)
        \/ Len(client[c].inbox) < MaxInbox /\ ReaderWake(c)

MainLoopSteps ==
    \E c \in {"c1"} :
        \/ ClientDataChanged(c)
        \/ ClientTick(c)
        \/ ClientQuit(c)

NextReader == SyncReceive \/ PutSteps \/ ReaderSteps \/ MainLoopSteps

\* Both threads run when they can: send() returns, the delay elapses, a
\* frame that is there is read, the main loop takes the events it is sent.
\* Nothing makes a stream end or the main loop quit.
FairReader ==
    /\ WF_vars(PutSteps)
    /\ WF_vars(ReaderConnect("c1") \/ ReaderConnectFails("c1"))
    /\ WF_vars(StreamNext("c1"))
    /\ WF_vars(KeepAlive("c1"))
    /\ WF_vars(ReaderSendFails("c1"))
    /\ WF_vars(Len(client["c1"].inbox) < MaxInbox /\ ReaderWake("c1"))
    /\ WF_vars(ClientDataChanged("c1"))
    /\ WF_vars(ClientTick("c1"))

SpecReader == Init /\ [][NextReader]_vars /\ FairReader

\* ------------------------------------------- claims: shutdown, the reader

\* C32: after SIGINT or SIGTERM no request and no subscription is accepted,
\* every handler in flight completes, every event stream ends, and the
\* process exits with code 0, subscribers attached or not.
C32_GracefulShutdown ==
    /\ [][srv.phase # "serving" =>
            /\ nput' = nput
            /\ \A u \in Users : hub'[u].rx <= hub[u].rx]_vars
    /\ \A p \in PutIds : (srv.phase = "draining" /\ InFlight(p)) ~> ~InFlight(p)
    /\ [](srv.phase = "exited" => srv.code = 0 /\ \A c \in Clients : client[c].sse # "up")
    /\ (srv.phase = "draining") ~> (srv.phase = "exited")

\* C33: after the end of a stream and after a failed connection alike the
\* reader sleeps and connects again; and once the main loop's end of the
\* channel is closed the reader thread ends, wherever it is.
C33_ReaderReconnectsAndExits ==
    /\ [][\A c \in Clients :
            (client[c].sse \in {"up", "down"} /\ client'[c].sse \notin {"up", "down", "exit"})
                => client'[c].sse = "sleep"]_vars
    /\ (client["c1"].running /\ client["c1"].sse = "sleep")
            ~> (client["c1"].sse = "down" \/ ~client["c1"].running)
    /\ (~client["c1"].running) ~> (client["c1"].sse = "exit")

\* ------------------------------------------------- board names: normalization

\* The characters of the short board spellings.
BoardChars == {"@", " ", "c", "C"}

Coding == <<"c", "o", "d", "i", "n", "g">>

\* The spellings given to normalize_board_name: every string of at most two
\* of BoardChars, "coding" and the default board in their spellings.
BoardSpellings ==
    {<<>>} \cup {<<x>> : x \in BoardChars} \cup {<<x, y>> : x, y \in BoardChars}
    \cup {<<"@", " ", "c">>,
          Coding,
          <<"C", "o", "d", "i", "n", "g">>,
          <<"@", "C", "O", "D", "I", "N", "G">>,
          <<" ", "c", "o", "d", "i", "n", "g", " ">>,
          AliasMyboard, AliasMyBoard, DEFAULT_BOARD,
          <<"M", "y", "B", "o", "a", "r", "d">>,
          <<"M", "Y", "B", "O", "A", "R", "D">>,
          <<"@", "m", "y", "b", "o", "a", "r", "d">>,
          <<"@", "M", "y", " ", "B", "o", "a", "r", "d">>,
          <<" ", "M", "Y", " ", "B", "O", "A", "R", "D", " ">>}

\* Two spellings are given; nothing is normalized yet.
InitBoard ==
    /\ rows = {}
    /\ sessions = InitSessions
    /\ InitAuthVars
    /\ srv = Serving
    /\ put = [p \in PutIds |-> IdlePut]
    /\ nput = 0
    /\ lastGet = [status |-> 0, user |-> NoUser, archived |-> FALSE,
                  items |-> Empty, last |-> Empty]
    /\ hub = [u \in Users |-> NoChannel]
    /\ client = [c \in Clients |-> InitClient("t1")]
    /\ hist = [u \in Users |-> [a \in BOOLEAN |-> [ver |-> 0, last |-> Empty, ok |-> {}]]]
    /\ local = [disk |-> [a \in BOOLEAN |-> NoFile], written |-> [a \in BOOLEAN |-> <<>>],
                nset |-> 0, got |-> NoRead]
    /\ fs = [proc |-> [p \in Procs |-> [IdleProc EXCEPT !.pc = "down"]],
             lock |-> [a \in BOOLEAN |-> NoProc],
             temp |-> [p \in Procs |-> NoTemp],
             torn |-> [a \in BOOLEAN |-> FALSE],
             ncall |-> 0]
    /\ \E x, y \in BoardSpellings :
            svc = [op |-> "none", arg |-> <<x, y>>, res |-> <<x, y>>, writes |-> 0, n |-> 0]

\* normalize_board_name applied to both spellings.
NormalizeBoth ==
    /\ svc.op = "none"
    /\ svc' = [svc EXCEPT !.op = "normalize_board_name",
                          !.res = <<normalize_board_name(svc.arg[1]),
                                    normalize_board_name(svc.arg[2])>>,
                          !.n = 1]
    /\ UNCHANGED <<rows, sessions, AuthVars, srv, put, nput, lastGet, hub, client, hist,
                   local, fs>>

NextBoard == NormalizeBoth

SpecBoard == InitBoard /\ [][NextBoard]_vars

\* ------------------------------------------------------ claims: board names

\* The name the spelling names: blanks around and leading '@' left out.
Bare(raw) == Trim(TrimStartMatches(Trim(raw), "@"))

\* Two spellings of the same board: equal but for blanks, '@' and case.
SameBoard(x, y) == EqIgnoreAsciiCase(Bare(x), Bare(y))

\* A spelling of the default board: its name or its alias in any case, with
\* or without '@', or the empty name.
SpellsDefault(raw) ==
    \/ Bare(raw) = <<>>
    \/ EqIgnoreAsciiCase(Bare(raw), AliasMyboard)
    \/ EqIgnoreAsciiCase(Bare(raw), AliasMyBoard)

\* C34: normalization maps every spelling of the same board to one stored
\* name (normalize("@CODING") = normalize(" coding ") = "coding": '@'
\* stripped, blanks trimmed, case differences removed), and every spelling of
\* the default board to "My Board".
C34_OneCanonicalName ==
    svc.op = "normalize_board_name" =>
        /\ SameBoard(svc.arg[1], svc.arg[2]) => svc.res[1] = svc.res[2]
        /\ (/\ svc.arg[1] = <<"@", "C", "O", "D", "I", "N", "G">>
            /\ svc.arg[2] = <<" ", "c", "o", "d", "i", "n", "g", " ">>)
                => svc.res = <<Coding, Coding>>
        /\ SpellsDefault(svc.arg[1]) => svc.res[1] = DEFAULT_BOARD

\* C34, as the code has it: spellings that differ in blanks around and in
\* leading '@' get one stored name, the spelling without them; the case of
\* the letters is kept, so normalize("@CODING") = "CODING" and
\* normalize(" coding ") = "coding", which are equal under board_eq only;
\* every spelling of the default board gets "My Board".
C34_OneNameUpToCase ==
    svc.op = "normalize_board_name" =>
        /\ (Bare(svc.arg[1]) = Bare(svc.arg[2]) /\ ~SpellsDefault(svc.arg[1]))
                => svc.res = <<Bare(svc.arg[1]), Bare(svc.arg[1])>>
        /\ SameBoard(svc.arg[1], svc.arg[2]) => board_eq(svc.res[1], svc.res[2])
        /\ (/\ svc.arg[1] = <<"@", "C", "O", "D", "I", "N", "G">>
            /\ svc.arg[2] = <<" ", "c", "o", "d", "i", "n", "g", " ">>)
                => svc.res = <<<<"C", "O", "D", "I", "N", "G">>, Coding>>
        /\ SpellsDefault(svc.arg[1]) => svc.res[1] = DEFAULT_BOARD

\* "@CODING" and " coding " have been normalized.
C34_Witness ==
    /\ svc.op = "normalize_board_name"
    /\ svc.arg = <<<<"@", "C", "O", "D", "I", "N", "G">>,
                   <<" ", "c", "o", "d", "i", "n", "g", " ">>>>
    /\ svc.res[2] = Coding

\* ------------------------------------------------ moves that stop part-way

\* The operation ends before its last write: a store call returned an error
\* (`?`) or the process stopped.
Stopped == [ok |-> FALSE, id |-> 0, value |-> 0 - 1]

RECURSIVE move_some(_, _, _, _, _)
\* The loop of move_each up to its n-th call of save_item_to_..., which does
\* not write: the destination file as the calls before it left it.
move_some(data, ids, file, archived, n) ==
    IF ids = <<>> THEN file
    ELSE LET k == to_string(Head(ids))
         IN  IF k \notin DOMAIN data THEN move_some(data, Tail(ids), file, archived, n)
             ELSE IF n = 0 THEN file
             ELSE move_some(MapRemove(data, k), Tail(ids),
                            IF archived THEN save_item_to_archive(file, data[k])
                            ELSE save_item_to_storage(file, data[k]),
                            archived, n - 1)

RECURSIVE removed_first(_, _, _)
\* The source map after the loop removed n + 1 items from it.
removed_first(data, ids, n) ==
    IF ids = <<>> THEN data
    ELSE LET k == to_string(Head(ids))
         IN  IF k \notin DOMAIN data THEN removed_first(data, Tail(ids), n)
             ELSE IF n = 0 THEN MapRemove(data, k)
             ELSE removed_first(MapRemove(data, k), Tail(ids), n - 1)

\* delete_items with self.save(&data) in each round of the loop, before
\* save_item_to_archive: it ends after n items were saved to the archive and
\* the next one was removed from the active bucket.
delete_items_stopped_source_first(ids, n) ==
    /\ svc.n < MaxSvcCalls
    /\ LET data == get_data
           v == validate_ids(ids, get_ids(data))
       IN  /\ v.ok
           /\ n <= Len(v.ids)
           /\ ServiceReturn("delete", ids, Stopped, n,
                            write_json_file(removed_first(data, v.ids, n)),
                            move_some(data, v.ids, local.disk[TRUE], TRUE, n))

\* delete_items / delete_items_silent that ends after n items were saved to
\* the archive (all of them, for n = Len(v.ids)): self.save(&data) is not
\* reached, or fails.
delete_items_stopped(ids, n) ==
    /\ svc.n < MaxSvcCalls
    /\ LET data == get_data
           v == validate_ids(ids, get_ids(data))
       IN  /\ v.ok
           /\ n <= Len(v.ids)
           /\ ServiceReturn("delete", ids, Stopped, n, local.disk[FALSE],
                            move_some(data, v.ids, local.disk[TRUE], TRUE, n))

\* restore_items / restore_items_silent that ends after n items were saved
\* to the active bucket.
restore_items_stopped(ids, n) ==
    /\ svc.n < MaxSvcCalls
    /\ LET archive == get_archive
           v == validate_ids(ids, get_ids(archive))
       IN  /\ v.ok
           /\ n <= Len(v.ids)
           /\ ServiceReturn("restore", ids, Stopped, n,
                            move_some(archive, v.ids, local.disk[FALSE], FALSE, n),
                            local.disk[TRUE])

\* clear / clear_silent that ends after n tasks were saved to the archive.
clear_stopped(n) ==
    /\ svc.n < MaxSvcCalls
    /\ LET data == get_data
       IN  \E ids \in Orders(ids_to_delete(data)) :
               /\ n <= Len(ids)
               /\ ServiceReturn("clear", <<>>, Stopped, n, local.disk[FALSE],
                                move_some(data, ids, local.disk[TRUE], TRUE, n))

\* Moves between the buckets, complete and stopped after any number of
\* store writes.
MoveCalls ==
    \/ \E ids \in IdLists : delete_items(ids) \/ restore_items(ids)
    \/ clear
    \/ \E ids \in IdLists, n \in 0..2 : delete_items_stopped(ids, n)
    \/ \E ids \in IdLists, n \in 0..2 : restore_items_stopped(ids, n)
    \/ \E n \in 0..2 : clear_stopped(n)

NextMove == MoveCalls

SpecMove == InitBook /\ [][NextMove]_vars

\* ------------------------------------------------- claims: moves that stop

\* An item without its id, which a move sets anew.
Unnumbered(item) == [item EXCEPT !.id = 0]

\* The entries of the two bucket maps that hold the item.
Copies(active, archive, item) ==
    Cardinality({k \in DOMAIN active : Unnumbered(active[k]) = Unnumbered(item)})
        + Cardinality({k \in DOMAIN archive : Unnumbered(archive[k]) = Unnumbered(item)})

\* C35: delete, restore and clear never lose an item: each moved item is
\* written to the destination bucket before the source bucket is rewritten
\* without it, so when the operation completes, when a store call fails and
\* when the process stops at any point, every item is in at least one of
\* the two buckets (after a failure it may be in both).
C35_MovesLoseNothing ==
    [][LET Data == get_data
           Arch == get_archive
           DataNow == read_json_file(local'.disk[FALSE]).items
           ArchNow == read_json_file(local'.disk[TRUE]).items
       IN  /\ \A k \in DOMAIN Data : Copies(DataNow, ArchNow, Data[k]) >= Copies(Data, Arch, Data[k])
           /\ \A k \in DOMAIN Arch : Copies(DataNow, ArchNow, Arch[k]) >= Copies(Data, Arch, Arch[k])
           /\ (svc'.op \in {"delete", "restore", "clear"} /\ ~svc'.res.ok) =>
                LET src == IF svc'.op = "restore" THEN Arch ELSE Data
                    srcNow == IF svc'.op = "restore" THEN ArchNow ELSE DataNow
                    dst == IF svc'.op = "restore" THEN Data ELSE Arch
                    dstNow == IF svc'.op = "restore" THEN DataNow ELSE ArchNow
                IN  /\ srcNow = src
                    /\ svc'.res = Stopped => Cardinality(DOMAIN dstNow)
                                                = Cardinality(DOMAIN dst) + svc'.writes]_vars

\* C35 witness: a delete of two items stopped after one of them was saved to
\* the archive: that item is in both buckets.
C35_Witness ==
    /\ svc.op = "delete" /\ svc.res = Stopped /\ svc.writes = 1
    /\ Len(remove_duplicates(svc.arg)) = 2
    /\ \E k \in DOMAIN get_data, j \in DOMAIN get_archive :
            Unnumbered(get_data[k]) = Unnumbered(get_archive[j])

\* --------------------------------------------------- owners and buckets

\* Requests of two owners on both buckets, two in flight at a time, and GETs
\* of both at any moment.
OwnersReceive ==
    /\ nput < MaxDbPuts
    /\ \E p \in PutIds, tok \in {"t1", "t2"}, a \in BOOLEAN, items \in {Body1A, Body2B} :
            PutReceive(p, tok, a, items)

OwnersGet == \E tok \in {"t1", "t2", "stale"}, a \in BOOLEAN : GetItems(tok, a)

NextOwners == OwnersReceive \/ PutSteps \/ OwnersGet

SpecOwners == Init /\ [][NextOwners]_vars

\* ------------------------------------------- claims: owners and buckets

\* C36: a PUT to one bucket of one owner leaves that owner's other bucket
\* and both buckets of every other owner unchanged, and a GET returns only
\* rows of the authenticated owner and of the requested bucket: the rows of
\* bucket (u, a) change only in the commit of a PUT of u on a, and what a
\* GET returns is made of the rows of the token's owner in the bucket asked
\* for and of nothing else.
C36_OwnersAndBucketsApart ==
    /\ [][\A u \in Users, a \in BOOLEAN :
            SelectRows(u, a)' # SelectRows(u, a) =>
                \E p \in PutIds : /\ put[p].pc = "inserting" /\ put'[p].pc = "committed"
                                  /\ put[p].user = u /\ put[p].archived = a]_vars
    /\ [][\A tok \in {"t1", "t2", "stale"}, a \in BOOLEAN :
            GetItems(tok, a) =>
                IF tok \in DOMAIN sessions
                THEN /\ lastGet'.status = 200
                     /\ lastGet'.items = rows_to_encrypted_items(
                            {r \in rows : r.user = sessions[tok].user_id /\ r.archived = a})
                ELSE lastGet'.status = 401 /\ lastGet'.items = Empty]_vars

\* C36 witness: u1's PUT and u2's PUT on the active bucket have committed,
\* and u2's GET returns the body of u2's PUT.
C36_Witness ==
    /\ lastGet.status = 200 /\ lastGet.user = "u2" /\ ~lastGet.archived
    /\ lastGet.items = Body2B
    /\ Bucket("u1", FALSE) = Body1A

\* ---------------------------------------------------- claims: keys and ids

\* The operations that edit items in their bucket.
InBucketEdits ==
    {"check", "begin", "star", "update_priority", "update_priority_silent",
     "edit_description", "edit_description_silent", "move_boards", "move_boards_silent",
     "rename_board_silent"}

\* C37: in both buckets every entry has a key equal to the decimal string of
\* the item's id: create, delete and restore set the id of the item to the
\* key they insert it under, and the edits within a bucket (check, begin,
\* star, priority, edit, move, rename board) change neither the key set nor
\* any id.
C37_KeyIsId ==
    /\ [](\A a \in BOOLEAN : \A k \in DOMAIN BucketItems(a) :
            k = to_string(BucketItems(a)[k].id))
    /\ [][LET Data == get_data
              Arch == get_archive
              DataNow == read_json_file(local'.disk[FALSE]).items
              ArchNow == read_json_file(local'.disk[TRUE]).items
          IN  /\ \A k \in DOMAIN DataNow \ DOMAIN Data : DataNow[k].id = parse_u64(k)[1]
              /\ \A k \in DOMAIN ArchNow \ DOMAIN Arch : ArchNow[k].id = parse_u64(k)[1]
              /\ svc'.op \in InBucketEdits =>
                    /\ DOMAIN DataNow = DOMAIN Data /\ DOMAIN ArchNow = DOMAIN Arch
                    /\ \A k \in DOMAIN Data : DataNow[k].id = Data[k].id
                    /\ \A k \in DOMAIN Arch : ArchNow[k].id = Arch[k].id]_vars

\* C37 witness: the archive's entry of id 1 has been restored next to the
\* keys 1, 2 and 3: it is under key 4 with id 4, and was edited there.
C37_Witness ==
    /\ svc.n = 2 /\ svc.op \in InBucketEdits /\ svc.res.ok /\ svc.writes = 1
    /\ DOMAIN get_data = {"1", "2", "3", "4"}
    /\ get_data["4"].id = 4 /\ get_data["4"].description = "Z"

\* ------------------------------------------------- claims: the startup sweep

\* C39: the startup sweep of .temp/ takes no bucket lock: a process that
\* constructs its LocalStorage removes the temporary file of a write another
\* process has in progress; that write then fails at the rename, and the
\* bucket file keeps its complete previous content. The sweep removes or
\* alters no bucket file.
C39_SweepBreaksWrite ==
    /\ [](\A q \in Procs : fs.proc[q].pc = "down" => ENABLED FsNew(q))
    /\ [][\A q \in Procs :
            (fs.proc[q].pc = "down" /\ fs'.proc[q].pc = "idle") =>
                /\ \A p \in Procs : ~fs'.temp[p].exists
                /\ local' = local /\ fs'.torn = fs.torn /\ fs'.lock = fs.lock
                /\ \A p \in Procs \ {q} : fs'.proc[p] = fs.proc[p]]_vars
    /\ [][\A p \in Procs :
            (fs.proc[p].pc = "written" /\ ~fs.temp[p].exists
                /\ fs'.proc[p].pc \notin {"written", "down"}) =>
                    /\ fs'.proc[p].pc = "idle" /\ ~fs'.proc[p].res.ok
                    /\ local' = local
                    /\ ~fs'.torn[fs.proc[p].archived]]_vars

\* C39 witness: p holds the lock of a bucket that has a file, its temporary
\* file was written whole, and the process q that started meanwhile has
\* removed it; the rename is next.
C39_Witness ==
    \E p, q \in Procs :
        /\ fs.proc[p].pc = "written" /\ ~fs.temp[p].exists
        /\ fs.lock[fs.proc[p].archived] = p
        /\ local.disk[fs.proc[p].archived].exists
        /\ local.written[fs.proc[p].archived] # fs.proc[p].data
        /\ q # p /\ fs.proc[q].pc = "idle"

\* ------------------------------------- service operations of two processes

\* A process that has called no service operation.
NoCreate == [stage |-> "none", description |-> "", read |-> <<>>, id |-> 0, data |-> <<>>]

\* Two processes on one directory; history: what each create read, the id it
\* generated and the map it wrote.
InitRace ==
    /\ rows = {}
    /\ sessions = InitSessions
    /\ InitAuthVars
    /\ srv = Serving
    /\ put = [p \in PutIds |-> IdlePut]
    /\ nput = 0
    /\ lastGet = [status |-> 0, user |-> NoUser, archived |-> FALSE,
                  items |-> Empty, last |-> Empty]
    /\ hub = [u \in Users |-> NoChannel]
    /\ client = [c \in Clients |-> InitClient("t1")]
    /\ hist = [u \in Users |-> [a \in BOOLEAN |-> [ver |-> 0, last |-> Empty, ok |-> {}]]]
    /\ local = [disk |-> [a \in BOOLEAN |-> NoFile], written |-> [a \in BOOLEAN |-> <<>>],
                nset |-> 0, got |-> NoRead]
    /\ fs = [proc |-> [p \in Procs |-> [IdleProc EXCEPT !.pc = "down"]],
             lock |-> [a \in BOOLEAN |-> NoProc],
             temp |-> [p \in Procs |-> NoTemp],
             torn |-> [a \in BOOLEAN |-> FALSE],
             ncall |-> 0]
    /\ svc = [op |-> "create_task_direct", arg |-> [p \in Procs |-> NoCreate],
              res |-> Ok(0), writes |-> 0, n |-> 0]

\* create_task_direct of process p, `let mut data = self.get_data()?`: the
\* store's get is called.
create_get(p, description) ==
    /\ fs.proc[p].pc = "idle"
    /\ svc.arg[p].stage = "none"
    /\ fs' = [fs EXCEPT !.proc[p] = [IdleProc EXCEPT !.pc = "lock", !.op = "get"],
                        !.ncall = @ + 1]
    /\ svc' = [svc EXCEPT !.arg[p] = [NoCreate EXCEPT !.stage = "get",
                                                      !.description = description]]
    /\ UNCHANGED <<ServerVars, local>>

\* create_set with the id and the new map computed from the bucket file as
\* it is when get has returned and set is called.
create_set_rereads(p) ==
    /\ fs.proc[p].pc = "idle"
    /\ svc.arg[p].stage = "get"
    /\ LET read == fs.proc[p].res.items
           id == generate_id(get_data)
           data == MapInsert(get_data, to_string(id),
                             Task_new(id, svc.arg[p].description, <<DEFAULT_BOARD>>, 1))
       IN  /\ fs' = [fs EXCEPT !.proc[p] = [IdleProc EXCEPT !.pc = "lock", !.op = "set",
                                                            !.data = data],
                               !.ncall = @ + 1]
           /\ svc' = [svc EXCEPT !.arg[p] = [@ EXCEPT !.stage = "set", !.read = read,
                                                      !.id = id, !.data = data]]
    /\ UNCHANGED <<ServerVars, local>>

\* create_task_direct, get has returned the map: generate_id, Task::new,
\* data.insert, and the store's set is called with the map.
create_set(p) ==
    /\ fs.proc[p].pc = "idle"
    /\ svc.arg[p].stage = "get"
    /\ LET read == fs.proc[p].res.items
           id == generate_id(read)
           data == MapInsert(read, to_string(id),
                             Task_new(id, svc.arg[p].description, <<DEFAULT_BOARD>>, 1))
       IN  /\ fs' = [fs EXCEPT !.proc[p] = [IdleProc EXCEPT !.pc = "lock", !.op = "set",
                                                            !.data = data],
                               !.ncall = @ + 1]
           /\ svc' = [svc EXCEPT !.arg[p] = [@ EXCEPT !.stage = "set", !.read = read,
                                                      !.id = id, !.data = data]]
    /\ UNCHANGED <<ServerVars, local>>

\* create_task_direct returns: `self.save(&data)?; Ok(id)`.
create_return(p) ==
    /\ fs.proc[p].pc = "idle"
    /\ svc.arg[p].stage = "set"
    /\ svc' = [svc EXCEPT !.arg[p].stage = IF fs.proc[p].res.ok THEN "ok" ELSE "failed",
                          !.n = @ + 1]
    /\ UNCHANGED <<ServerVars, local, fs>>

\* Two processes that start and create a task each, the steps of their
\* store calls in any order.
NextRace ==
    \E p \in Procs :
        \/ FsNew(p)
        \/ \E description \in {"P", "Q"} : create_get(p, description)
        \/ FsProgress(p)
        \/ create_set(p)
        \/ create_return(p)

SpecRace == InitRace /\ [][NextRace]_vars

\* ------------------------------------------- claims: concurrent operations

\* Both creates returned Ok after they read the same content.
BothCreatedFromSameRead ==
    /\ \A p \in Procs : svc.arg[p].stage = "ok"
    /\ svc.arg["p1"].read = svc.arg["p2"].read

\* C38: the local lock covers one read or one write, not the read-modify-
\* write of a service operation: a process between its read and its write
\* holds no lock and another process can read the same content meanwhile;
\* when two creates that read the same content both return success they
\* have allocated the same id, and the bucket holds the result of the one
\* that wrote later, without the item of the other.
C38_LostUpdate ==
    /\ [](\A p \in Procs :
            (svc.arg[p].stage = "get" /\ fs.proc[p].pc = "idle") =>
                /\ \A a \in BOOLEAN : fs.lock[a] # p
                /\ \A q \in Procs \ {p} :
                        (fs.proc[q].pc = "idle" /\ svc.arg[q].stage = "none")
                            => ENABLED create_get(q, "Q"))
    /\ [](BothCreatedFromSameRead =>
            /\ svc.arg["p1"].id = svc.arg["p2"].id
            /\ get_data \in {svc.arg["p1"].data, svc.arg["p2"].data}
            /\ Cardinality(DOMAIN get_data) = Cardinality(DOMAIN svc.arg["p1"].read) + 1)
    /\ [][\A p \in Procs :
            (fs.proc[p].pc = "written" /\ fs'.proc[p].pc = "renamed")
                => read_json_file(local'.disk[FALSE]).items = svc.arg[p].data]_vars

\* C38 witness: both processes read the empty bucket, both creates returned
\* Ok with id 1, and the bucket holds one task.
C38_Witness ==
    /\ BothCreatedFromSameRead
    /\ svc.arg["p1"].id = 1 /\ svc.arg["p2"].id = 1
    /\ svc.arg["p1"].description # svc.arg["p2"].description
    /\ DOMAIN get_data = {"1"}

\* ------------------------------------------------ the cache of a client

\* App::refresh_items, which the key handlers call after a mutation: the
\* active bucket is loaded.
ClientRefresh(c) ==
    /\ client[c].running
    /\ client' = [client EXCEPT ![c] = Loaded(@, AuthUser(client[c].token), FALSE)]
    /\ UNCHANGED <<AuthVars, srv, fs, svc, local, rows, sessions, put, nput, lastGet, hub, hist>>

\* The reader and the main loop of a client, with its view switches and its
\* own mutations, while the owner's buckets are replaced.
StaleClient ==
    \/ \E v \in {"Board", "Archive"} : ClientSetView("c1", v)
    \/ ClientRefresh("c1")

NextStale == SyncReceive \/ PutSteps \/ ReaderSteps \/ MainLoopSteps \/ StaleClient

SpecStale == Init /\ [][NextStale]_vars

\* ------------------------------------------- claims: the cache of a client

\* C40: a DataChanged notified while the reader of a client is not
\* subscribed is never delivered to it: a reader that connects has nothing
\* waiting and is sent only what is notified from then on; the reader posts
\* a Tick and nothing else when it reconnects, and a Tick loads nothing; the
\* items the client caches change only on an event for the bucket it shows,
\* on a refresh after a mutation of its own, or on a view switch.
C40_MissedEventStaysMissed ==
    /\ [](\A c \in Clients : client[c].sse = "up" => client[c].next >= client[c].since)
    /\ [][\A c \in Clients :
            /\ (client[c].sse # "up" /\ client'[c].sse = "up") =>
                    /\ RecvKind(hub'[ClientUser(c)], client'[c].next) = "empty"
                    /\ client'[c].since = hub[ClientUser(c)].tail
                    /\ client'[c].inbox = client[c].inbox
                    /\ client'[c].items = client[c].items
            /\ (client[c].sse = "sleep" /\ client'[c].sse = "down") =>
                    /\ client'[c].inbox = Append(client[c].inbox, EventTick)
                    /\ client'[c].items = client[c].items
            /\ (/\ client[c].inbox # <<>> /\ Head(client[c].inbox) = EventTick
                /\ client'[c].inbox = Tail(client[c].inbox)) =>
                    client'[c].items = client[c].items
            /\ client'[c].items # client[c].items =>
                    \/ client'[c].view # client[c].view
                    \/ /\ client[c].inbox # <<>> /\ Head(client[c].inbox) # EventTick
                       /\ Head(client[c].inbox).archived = ViewArchived(client[c].view)
                       /\ client'[c].inbox = Tail(client[c].inbox)
                    \/ /\ client'[c].inbox = client[c].inbox
                       /\ client'[c].items = RemoteGet(ClientUser(c), FALSE)
      ]_vars

\* C40 witness: a PUT on u1's active bucket has committed, notified and
\* replied while no receiver was subscribed (the channel has stored no
\* event); the reader of c1 has since posted its Tick and connected, nothing
\* waits on its channel, and the items c1 caches in the board view are not
\* the server's active bucket.
C40_Witness ==
    /\ client["c1"].running /\ client["c1"].sse = "up" /\ client["c1"].view = "Board"
    /\ client["c1"].inbox = <<EventTick>>
    /\ hub["u1"].tail = 0
    /\ RecvKind(hub["u1"], client["c1"].next) = "empty"
    /\ \A p \in PutIds : ~InFlight(p)
    /\ \E p \in PutIds : /\ put[p].status = 200 /\ put[p].notified = 1
                         /\ put[p].user = "u1" /\ ~put[p].archived
    /\ ~CacheCurrent("c1")

=============================================================================
